---- MODULE Spec2Model ----
(***************************************************************************)
(* The in-process relational store of src/PythonPatterns4/main.py:         *)
(* type validators, Column, Row, Table, SimpleQuery and the Database       *)
(* singleton.  Row objects live in a heap and are referred to by address,  *)
(* as Python objects are; a Table keeps the ordered list of the addresses  *)
(* of its rows.                                                            *)
(***************************************************************************)
EXTENDS Integers, Sequences, FiniteSets, TLC

VARIABLES
    heap,      \* address -> Row object [data, id]
    tables,    \* table name -> Table object [name, columns, rows, next_id]
    last,      \* the last call: its operation, arguments, return value, exception
    assigned,  \* history: table name -> ids returned by successful inserts, in order
    deleted,   \* history: table name -> ids for which delete returned True
    held,      \* what the clients keep: a list or a view from a call, or the frames
               \* of their calls in progress (None when they keep nothing)
    instance,  \* Database._instance: None or the Database object
    query      \* the SimpleQuery object a client builds (None when there is none)

vars == <<heap, tables, last, assigned, deleted, held, instance, query>>

(***************************************************************************)
(* Bounds of the model.                                                    *)
(***************************************************************************)
MaxInserts == 4   \* successful inserts per table
MaxRows == 3      \* rows stored in a table at one time

(***************************************************************************)
(* Python values.  Every value is a record whose tag is its Python type.   *)
(***************************************************************************)
None == [tag |-> "none", v |-> 0]
IntV(n) == [tag |-> "int", v |-> n]
BoolV(b) == [tag |-> "bool", v |-> b]
StrV(s) == [tag |-> "str", v |-> s]
DateV(y, m, d) == [tag |-> "date", v |-> <<y, m, d>>]
RowRef(a) == [tag |-> "Row", v |-> a]
ListV(s) == [tag |-> "list", v |-> s]

\* isinstance(value, int): bool is a subclass of int.
isinstance_int(value) == value.tag \in {"int", "bool"}
isinstance_str(value) == value.tag = "str"
isinstance_bool(value) == value.tag = "bool"
isinstance_date(value) == value.tag = "date"

\* Python dicts are functions from keys to values.
EmptyDict == <<>>
dict_get(d, k) == IF k \in DOMAIN d THEN d[k] ELSE None
dict_update(d, new) == new @@ d

SetMin(S) == CHOOSE x \in S : \A y \in S : x <= y

(***************************************************************************)
(* Type validators.                                                        *)
(***************************************************************************)
IntegerType == [kind |-> "IntegerType", max_length |-> None]
StringType(max_length) == [kind |-> "StringType", max_length |-> max_length]
BooleanType == [kind |-> "BooleanType", max_length |-> None]
DateType == [kind |-> "DateType", max_length |-> None]

IntegerType_validate(value) == isinstance_int(value)

StringType_validate(dt, value) ==
    IF ~isinstance_str(value) THEN FALSE
    ELSE IF dt.max_length # None /\ Len(value.v) > dt.max_length.v THEN FALSE
    ELSE TRUE

BooleanType_validate(value) == isinstance_bool(value)

Digits == {"0", "1", "2", "3", "4", "5", "6", "7", "8", "9"}
DigitVal(c) ==
    CASE c = "0" -> 0 [] c = "1" -> 1 [] c = "2" -> 2 [] c = "3" -> 3
      [] c = "4" -> 4 [] c = "5" -> 5 [] c = "6" -> 6 [] c = "7" -> 7
      [] c = "8" -> 8 [] c = "9" -> 9
Char(s, i) == SubSeq(s, i, i)
RECURSIVE ParseInt(_, _, _)
ParseInt(s, from, to) ==
    IF to < from THEN 0
    ELSE 10 * ParseInt(s, from, to - 1) + DigitVal(Char(s, to))
IsLeap(y) == y % 4 = 0 /\ (y % 100 # 0 \/ y % 400 = 0)
DaysInMonth(y, m) ==
    IF m = 2 THEN (IF IsLeap(y) THEN 29 ELSE 28)
    ELSE IF m \in {4, 6, 9, 11} THEN 30 ELSE 31
\* datetime.date.fromisoformat(s) returns (TRUE) or raises ValueError (FALSE),
\* for the calendar form YYYY-MM-DD.
date_fromisoformat(s) ==
    /\ Len(s) = 10
    /\ Char(s, 5) = "-" /\ Char(s, 8) = "-"
    /\ \A i \in {1, 2, 3, 4, 6, 7, 9, 10} : Char(s, i) \in Digits
    /\ LET y == ParseInt(s, 1, 4)
           m == ParseInt(s, 6, 7)
           d == ParseInt(s, 9, 10)
       IN /\ 1 <= y
          /\ 1 <= m /\ m <= 12
          /\ 1 <= d /\ d <= DaysInMonth(y, m)

DateType_validate(value) ==
    IF isinstance_date(value) THEN TRUE
    ELSE IF isinstance_str(value) THEN date_fromisoformat(value.v)
    ELSE FALSE

DataType_validate(dt, value) ==
    CASE dt.kind = "IntegerType" -> IntegerType_validate(value)
      [] dt.kind = "StringType" -> StringType_validate(dt, value)
      [] dt.kind = "BooleanType" -> BooleanType_validate(value)
      [] dt.kind = "DateType" -> DateType_validate(value)

(***************************************************************************)
(* Column and Row.                                                         *)
(***************************************************************************)
NoForeignKey == <<>>
Column(name, data_type, nullable, primary_key, foreign_key) ==
    [name |-> name, data_type |-> data_type, nullable |-> nullable,
     primary_key |-> primary_key, foreign_key |-> foreign_key]

\* Mutant of Column_validate: null passes whatever the column's nullable says.
Column_validate_null_ok(column, value) ==
    IF value = None THEN TRUE
    ELSE DataType_validate(column.data_type, value)

Column_validate(column, value) ==
    IF value = None THEN column.nullable
    ELSE DataType_validate(column.data_type, value)

\* Row(data): a copy of the dict, and no id yet.
Row(data) == [data |-> data, id |-> None]

(***************************************************************************)
(* Table.                                                                  *)
(***************************************************************************)
RECURSIVE SortedSeq(_)
SortedSeq(S) ==
    IF S = {} THEN <<>>
    ELSE LET m == SetMin(S) IN <<m>> \o SortedSeq(S \ {m})

\* Mutant of columns_dict: a name keeps its first Column.
columns_dict_first(columns) ==
    LET n == Len(columns)
        firsts == {i \in 1..n : \A j \in 1..(i - 1) : columns[j].name # columns[i].name}
        order == SortedSeq(firsts)
    IN [k \in 1..Len(order) |-> columns[order[k]]]

\* {c.name: c for c in columns}: a name keeps the place of its first Column and
\* the value of its last one.
columns_dict(columns) ==
    LET n == Len(columns)
        firsts == {i \in 1..n : \A j \in 1..(i - 1) : columns[j].name # columns[i].name}
        lastOf(i) == CHOOSE j \in i..n :
                        /\ columns[j].name = columns[i].name
                        /\ \A k \in (j + 1)..n : columns[k].name # columns[i].name
        order == SortedSeq(firsts)
    IN [k \in 1..Len(order) |-> columns[lastOf(order[k])]]

Table(name, columns) ==
    [name |-> name, columns |-> columns_dict(columns), rows |-> <<>>, next_id |-> 1]

\* What a call leaves behind: the heap, the Table, the value returned and the
\* exception raised (NoErr when the call returns).
NoErr == [type |-> "", msg |-> "", arg |-> ""]
ValueError(msg, arg) == [type |-> "ValueError", msg |-> msg, arg |-> arg]
KeyError(msg) == [type |-> "KeyError", msg |-> msg, arg |-> ""]
Returns(h, tbl, value) == [heap |-> h, table |-> tbl, ret |-> value, err |-> NoErr]
Raises(h, tbl, e) == [heap |-> h, table |-> tbl, ret |-> None, err |-> e]

\* The smallest free address: where a new object is allocated.
NewAddr(h) == SetMin({a \in 1..(Cardinality(DOMAIN h) + 1) : a \notin DOMAIN h})

\* Mutant of validate_row_data: a value of a foreign-key column must also be
\* the value some row of the referenced Table has at the referenced column.
validate_row_data_fk(tbl, row_data) ==
    LET dangling(col) ==
            /\ col.foreign_key # NoForeignKey
            /\ instance # None
            /\ dict_get(row_data, col.name) # None
            /\ col.foreign_key[1] \in DOMAIN instance.v.attrs["tables"]
            /\ LET ref == tables[instance.v.attrs["tables"][col.foreign_key[1]]] IN
               \A j \in 1..Len(ref.rows) :
                   dict_get(heap[ref.rows[j]].data, col.foreign_key[2])
                       # dict_get(row_data, col.name)
        bad == {i \in 1..Len(tbl.columns) :
                  \/ ~Column_validate(tbl.columns[i], dict_get(row_data, tbl.columns[i].name))
                  \/ dangling(tbl.columns[i])}
    IN IF bad = {} THEN 0 ELSE SetMin(bad)

\* Mutant of validate_row_data: a value of a primary-key column must differ
\* from the value every stored row of the Table has at that column.
validate_row_data_unique(tbl, row_data) ==
    LET bad == {i \in 1..Len(tbl.columns) :
                  \/ ~Column_validate(tbl.columns[i], dict_get(row_data, tbl.columns[i].name))
                  \/ /\ tbl.columns[i].primary_key
                     /\ \E j \in 1..Len(tbl.rows) :
                           dict_get(heap[tbl.rows[j]].data, tbl.columns[i].name)
                              = dict_get(row_data, tbl.columns[i].name)}
    IN IF bad = {} THEN 0 ELSE SetMin(bad)

\* _validate_row_data: 0 when every column accepts its value, else the place of
\* the first column that does not (the ValueError names it).
validate_row_data(tbl, row_data) ==
    LET bad == {i \in 1..Len(tbl.columns) :
                  ~Column_validate(tbl.columns[i], dict_get(row_data, tbl.columns[i].name))}
    IN IF bad = {} THEN 0 ELSE SetMin(bad)

\* Mutant of Table_insert: the id is taken from the number of rows stored.
Table_insert_len_id(h, tbl, row_data) ==
    LET bad == validate_row_data(tbl, row_data) IN
    IF bad # 0
    THEN Raises(h, tbl, ValueError("Invalid value for column", tbl.columns[bad].name))
    ELSE LET a == NewAddr(h)
             row == [Row(row_data) EXCEPT !.id = IntV(Len(tbl.rows) + 1)]
         IN Returns(h @@ (a :> row),
                    [tbl EXCEPT !.next_id = @ + 1, !.rows = Append(@, a)],
                    RowRef(a))

\* Mutant of Table_insert: next_id is advanced before the row is validated.
Table_insert_count_first(h, tbl, row_data) ==
    LET bad == validate_row_data(tbl, row_data)
        counted == [tbl EXCEPT !.next_id = @ + 1]
    IN IF bad # 0
       THEN Raises(h, counted, ValueError("Invalid value for column", tbl.columns[bad].name))
       ELSE LET a == NewAddr(h)
                row == [Row(row_data) EXCEPT !.id = IntV(tbl.next_id)]
            IN Returns(h @@ (a :> row), [counted EXCEPT !.rows = Append(@, a)], RowRef(a))

\* Mutant of Table_insert: the new row is put at the head of the list.
Table_insert_front(h, tbl, row_data) ==
    LET bad == validate_row_data(tbl, row_data) IN
    IF bad # 0
    THEN Raises(h, tbl, ValueError("Invalid value for column", tbl.columns[bad].name))
    ELSE LET a == NewAddr(h)
             row == [Row(row_data) EXCEPT !.id = IntV(tbl.next_id)]
         IN Returns(h @@ (a :> row),
                    [tbl EXCEPT !.next_id = @ + 1, !.rows = <<a>> \o @],
                    RowRef(a))

Table_insert(h, tbl, row_data) ==
    LET bad == validate_row_data(tbl, row_data) IN
    IF bad # 0
    THEN Raises(h, tbl, ValueError("Invalid value for column", tbl.columns[bad].name))
    ELSE LET a == NewAddr(h)
             row == [Row(row_data) EXCEPT !.id = IntV(tbl.next_id)]
         IN Returns(h @@ (a :> row),
                    [tbl EXCEPT !.next_id = @ + 1, !.rows = Append(@, a)],
                    RowRef(a))

\* Mutant of get_by_id: rows are looked up by their field "id".
get_by_id_field(h, tbl, row_id) ==
    LET hits == {i \in 1..Len(tbl.rows) : dict_get(h[tbl.rows[i]].data, "id") = IntV(row_id)}
    IN IF hits = {} THEN None ELSE RowRef(tbl.rows[SetMin(hits)])

\* get_by_id: the first row of the list whose id is row_id, or None.
get_by_id(h, tbl, row_id) ==
    LET hits == {i \in 1..Len(tbl.rows) : h[tbl.rows[i]].id = IntV(row_id)}
    IN IF hits = {} THEN None ELSE RowRef(tbl.rows[SetMin(hits)])

\* Mutant of Table_update: the row is written before the merge is validated.
Table_update_write_first(h, tbl, row_id, new_data) ==
    LET row == get_by_id(h, tbl, row_id) IN
    IF row = None THEN Raises(h, tbl, KeyError("not found"))
    ELSE LET written == [h EXCEPT ![row.v].data = dict_update(@, new_data)]
             bad == validate_row_data(tbl, written[row.v].data)
         IN IF bad # 0
            THEN Raises(written, tbl,
                        ValueError("Invalid value for column", tbl.columns[bad].name))
            ELSE Returns(written, tbl, row)

\* Mutant of Table_update: the row's fields are replaced by the new ones.
Table_update_replace(h, tbl, row_id, new_data) ==
    LET row == get_by_id(h, tbl, row_id) IN
    IF row = None THEN Raises(h, tbl, KeyError("not found"))
    ELSE LET candidate == dict_update(h[row.v].data, new_data)
             bad == validate_row_data(tbl, candidate)
         IN IF bad # 0
            THEN Raises(h, tbl, ValueError("Invalid value for column", tbl.columns[bad].name))
            ELSE Returns([h EXCEPT ![row.v].data = new_data], tbl, row)

Table_update(h, tbl, row_id, new_data) ==
    LET row == get_by_id(h, tbl, row_id) IN
    IF row = None THEN Raises(h, tbl, KeyError("not found"))
    ELSE LET candidate == dict_update(h[row.v].data, new_data)
             bad == validate_row_data(tbl, candidate)
         IN IF bad # 0
            THEN Raises(h, tbl, ValueError("Invalid value for column", tbl.columns[bad].name))
            ELSE Returns([h EXCEPT ![row.v].data = dict_update(@, new_data)], tbl, row)

\* Mutant of list_remove: the last element goes, as with list.pop().
list_remove_last(s, x) == SubSeq(s, 1, Len(s) - 1)

\* list.remove(x): the list without its first element equal to x.
list_remove(s, x) ==
    LET i == SetMin({k \in 1..Len(s) : s[k] = x})
    IN SubSeq(s, 1, i - 1) \o SubSeq(s, i + 1, Len(s))

\* Mutant of Table_delete: the rows with the id are filtered out and True is
\* returned whether or not there was one.
Table_delete_always_true(h, tbl, row_id) ==
    Returns(h,
            [tbl EXCEPT !.rows = SelectSeq(@, LAMBDA a : h[a].id # IntV(row_id))],
            BoolV(TRUE))

Table_delete(h, tbl, row_id) ==
    LET row == get_by_id(h, tbl, row_id) IN
    IF row = None THEN Returns(h, tbl, BoolV(FALSE))
    ELSE Returns(h, [tbl EXCEPT !.rows = list_remove(@, row.v)], BoolV(TRUE))

\* select_all: list(self.rows), a new list of the same Row objects.
select_all(tbl) == ListV(tbl.rows)

(***************************************************************************)
(* The calls a client makes on a Table.                                    *)
(***************************************************************************)
Range(s) == {s[i] : i \in DOMAIN s}

\* Objects nothing refers to any more are gone.
Referenced(tbls, l) ==
    UNION {Range(tbls[t].rows) : t \in DOMAIN tbls}
      \cup (IF l.ret.tag = "Row" THEN {l.ret.v} ELSE {})
      \cup (IF l.ret.tag = "list" THEN Range(l.ret.v) ELSE {})
HeldRows ==
    IF held.tag = "list" THEN Range(held.v)
    ELSE IF held.tag = "JoinedTable" THEN Range(held.v.rows)
    ELSE IF held.tag = "frames" THEN {held.v[c].row : c \in DOMAIN held.v} \ {0}
    ELSE {}
Collect(h, tbls, l) == [a \in DOMAIN h \cap (Referenced(tbls, l) \cup HeldRows) |-> h[a]]

Call(op, t, row_id, data, r) ==
    [op |-> op, table |-> t, row_id |-> row_id, data |-> data, ret |-> r.ret, err |-> r.err]

Done(t, r, l) ==
    /\ tables' = [tables EXCEPT ![t] = r.table]
    /\ last' = l
    /\ heap' = Collect(r.heap, tables', l)
    /\ UNCHANGED <<held, instance, query>>

Insert(t, row_data) ==
    \E r \in {Table_insert(heap, tables[t], row_data)} :
        /\ r.err = NoErr => /\ tables[t].next_id <= MaxInserts
                            /\ Len(tables[t].rows) < MaxRows
        /\ Done(t, r, Call("insert", t, 0, row_data, r))
        /\ assigned' = IF r.err = NoErr
                       THEN [assigned EXCEPT ![t] = Append(@, r.heap[r.ret.v].id.v)]
                       ELSE assigned
        /\ UNCHANGED deleted

GetById(t, row_id) ==
    \E r \in {Returns(heap, tables[t], get_by_id(heap, tables[t], row_id))} :
        /\ Done(t, r, Call("get_by_id", t, row_id, EmptyDict, r))
        /\ UNCHANGED <<assigned, deleted>>

Update(t, row_id, new_data) ==
    \E r \in {Table_update(heap, tables[t], row_id, new_data)} :
        /\ Done(t, r, Call("update", t, row_id, new_data, r))
        /\ UNCHANGED <<assigned, deleted>>

Delete(t, row_id) ==
    \E r \in {Table_delete(heap, tables[t], row_id)} :
        /\ Done(t, r, Call("delete", t, row_id, EmptyDict, r))
        /\ deleted' = IF r.ret = BoolV(TRUE)
                      THEN [deleted EXCEPT ![t] = @ \cup {row_id}]
                      ELSE deleted
        /\ UNCHANGED assigned

SelectAll(t) ==
    \E r \in {Returns(heap, tables[t], select_all(tables[t]))} :
        /\ Done(t, r, Call("select_all", t, 0, EmptyDict, r))
        /\ UNCHANGED <<assigned, deleted>>

(***************************************************************************)
(* The Tables and the arguments the calls are tried with.                  *)
(***************************************************************************)
UsersColumns ==
    << Column("id", IntegerType, FALSE, TRUE, NoForeignKey),
       Column("name", StringType(IntV(2)), TRUE, FALSE, NoForeignKey) >>
EventsColumns ==
    << Column("day", DateType, FALSE, FALSE, NoForeignKey),
       Column("flag", BooleanType, TRUE, FALSE, NoForeignKey) >>

\* Accepted: all columns and an undeclared key; a nullable column left out.
\* Rejected: the non-nullable column left out; a string for the integer; a
\* string longer than max_length.
UsersInserts ==
    { ("id" :> IntV(2)) @@ ("name" :> StrV("ab")) @@ ("extra" :> IntV(9)),
      ("id" :> IntV(2)),
      ("name" :> StrV("ab")),
      ("id" :> StrV("ab")) @@ ("name" :> StrV("ab")),
      ("id" :> IntV(2)) @@ ("name" :> StrV("abc")) }
\* Accepted: null for the nullable column and an undeclared key, the id left
\* alone.  Rejected: null for the non-nullable column, beside an acceptable name.
UsersUpdates ==
    { ("name" :> None) @@ ("extra" :> IntV(9)),
      ("id" :> None) @@ ("name" :> None) }

\* Accepted: a date object; an ISO string and null.  Rejected: a day that does not exist;
\* an integer for the bool; the non-nullable column left out.
EventsInserts ==
    { ("day" :> DateV(2024, 2, 29)) @@ ("flag" :> BoolV(TRUE)),
      ("day" :> StrV("2024-02-29")) @@ ("flag" :> None),
      ("day" :> StrV("2023-02-29")) @@ ("flag" :> BoolV(TRUE)),
      ("day" :> StrV("2024-02-29")) @@ ("flag" :> IntV(1)),
      ("flag" :> BoolV(TRUE)) }
\* Accepted: null for the nullable column, the day left alone.  Rejected: a
\* string that is no ISO date, beside an acceptable flag.
EventsUpdates ==
    { ("flag" :> None),
      ("day" :> StrV("2024-2-29")) @@ ("flag" :> None) }

InsertInputs(t) == IF t = "users" THEN UsersInserts ELSE EventsInserts
UpdateInputs(t) == IF t = "users" THEN UsersUpdates ELSE EventsUpdates

\* Ids to call with: 0 is never assigned, the others may be.
RowIds == 0..MaxInserts

TableInits == { Table("users", UsersColumns), Table("events", EventsColumns) }

Init ==
    /\ \E tbl \in TableInits : tables = (tbl.name :> tbl)
    /\ heap = <<>>
    /\ last = Call("", "", 0, EmptyDict, Returns(heap, <<>>, None))
    /\ assigned = [t \in DOMAIN tables |-> <<>>]
    /\ deleted = [t \in DOMAIN tables |-> {}]
    /\ held = None
    /\ instance = None
    /\ query = None

Next ==
    \/ \E t \in DOMAIN tables : \E row_data \in InsertInputs(t) : Insert(t, row_data)
    \/ \E t \in DOMAIN tables, row_id \in RowIds : GetById(t, row_id)
    \/ \E t \in DOMAIN tables, row_id \in RowIds :
          \E new_data \in UpdateInputs(t) : Update(t, row_id, new_data)
    \/ \E t \in DOMAIN tables, row_id \in RowIds : Delete(t, row_id)
    \/ \E t \in DOMAIN tables : SelectAll(t)

Spec == Init /\ [][Next]_vars

(***************************************************************************)
(* What the claims speak of.                                               *)
(***************************************************************************)
\* The Row objects of a table, in list order.
RowsOf(t) == [i \in 1..Len(tables[t].rows) |-> heap[tables[t].rows[i]]]
\* The ids of the rows a table stores.
StoredIds(t) == {heap[a].id.v : a \in Range(tables[t].rows)}
\* The table as a client can observe it: its row list, the rows' contents, next_id.
TableState(t) == [table |-> tables[t], rows |-> RowsOf(t)]
\* A step that is a call of op on table t.
IsCall(op, t) == last'.op = op /\ last'.table = t
StrictlyIncreasing(s) == \A i, j \in 1..Len(s) : i < j => s[i] < s[j]
\* The fields of old overwritten by those of new.
Merged(old, new) ==
    [k \in DOMAIN old \cup DOMAIN new |-> IF k \in DOMAIN new THEN new[k] ELSE old[k]]
\* The address of the row of table t with this id (the id is stored).
AddrOf(t, row_id) == CHOOSE a \in Range(tables[t].rows) : heap[a].id = IntV(row_id)

\* C1: the ids the successful inserts of a Table return are strictly increasing
\* in assignment order, hence pairwise distinct, whatever updates, deletes and
\* failed calls come between; an id is never assigned again after its row is deleted.
C1_IdsStrictlyIncreasing ==
    \A t \in DOMAIN tables :
        /\ StrictlyIncreasing(assigned[t])
        /\ \A i \in 1..Len(assigned[t]) : assigned[t][i] < tables[t].next_id
        /\ deleted[t] \subseteq Range(assigned[t])

\* Insert three rows, delete the second, insert a fourth: the ids are 1, 2, 3, 4.
C1_Witness ==
    \E t \in DOMAIN tables :
        /\ assigned[t] = <<1, 2, 3, 4>>
        /\ deleted[t] = {2}
        /\ [i \in 1..Len(RowsOf(t)) |-> RowsOf(t)[i].id.v] = <<1, 3, 4>>

\* C2: an insert that fails validation leaves the Table as it was (row list,
\* every row's fields, next_id), so it consumes no id; the k-th successful insert
\* returns id k.
C2_FailedInsertChangesNothing ==
    [][\A t \in DOMAIN tables : IsCall("insert", t) =>
          IF last'.err # NoErr
          THEN /\ last'.err.type = "ValueError"
               /\ TableState(t)' = TableState(t)
               /\ assigned' = assigned
          ELSE /\ heap'[last'.ret.v].id = IntV(Len(assigned[t]) + 1)
               /\ tables'[t].next_id = tables[t].next_id + 1]_vars

\* A failed insert on a table that has assigned ids and deleted a row.
C2_Witness ==
    \E t \in DOMAIN tables :
        /\ last.op = "insert" /\ last.table = t
        /\ last.err.type = "ValueError"
        /\ Len(assigned[t]) = 2
        /\ deleted[t] # {}

\* C3: an update that fails, with KeyError (no row has the id) or ValueError (the
\* merged row violates a column), leaves the Table as it was: the targeted row
\* keeps every field value; the other rows, the row order and next_id are unchanged.
C3_FailedUpdateChangesNothing ==
    [][\A t \in DOMAIN tables : (IsCall("update", t) /\ last'.err # NoErr) =>
          /\ TableState(t)' = TableState(t)
          /\ last'.err.type = (IF last'.row_id \in StoredIds(t)
                               THEN "ValueError" ELSE "KeyError")]_vars

\* An update rejected for the null in the non-nullable column, whose other field
\* would have changed the row it names.
C3_Witness ==
    \E t \in DOMAIN tables :
        /\ last.op = "update" /\ last.table = t
        /\ last.err.type = "ValueError"
        /\ last.row_id \in StoredIds(t)
        /\ \E k \in DOMAIN last.data :
              last.data[k] # dict_get(heap[AddrOf(t, last.row_id)].data, k)
        /\ Len(tables[t].rows) > 1

\* C4: every stored row satisfies the schema: Column.validate accepts the row's
\* value for every column of its Table (null when the key is missing).
C4_RowsSatisfySchema ==
    \A t \in DOMAIN tables : \A a \in Range(tables[t].rows) :
        \A i \in 1..Len(tables[t].columns) :
            LET column == tables[t].columns[i]
                value == dict_get(heap[a].data, column.name)
            IN IF value = None THEN column.nullable
               ELSE DataType_validate(column.data_type, value)

\* After a successful update, a table holds a row that lacks a nullable column's
\* key and a row that holds null for it.
C4_Witness ==
    \E t \in DOMAIN tables :
        /\ last.op = "update" /\ last.err = NoErr
        /\ \E a, b \in Range(tables[t].rows), i \in 1..Len(tables[t].columns) :
              LET name == tables[t].columns[i].name
              IN /\ name \notin DOMAIN heap[a].data
                 /\ name \in DOMAIN heap[b].data /\ heap[b].data[name] = None

\* C5: every field name of a stored Row is the name of a Column of its Table.
C5_OnlyDeclaredFields ==
    \A t \in DOMAIN tables : \A a \in Range(tables[t].rows) :
        DOMAIN heap[a].data \subseteq
            {tables[t].columns[i].name : i \in 1..Len(tables[t].columns)}

\* C6: get_by_id called right after a successful insert with the id that insert
\* returned gives that very Row, with the inserted fields and the assigned id;
\* and get_by_id never returns a row whose id is not the one asked for.
C6_InsertThenGetById ==
    [][/\ (/\ last.op = "insert" /\ last.err = NoErr
           /\ IsCall("get_by_id", last.table)
           /\ last'.row_id = heap[last.ret.v].id.v)
          => /\ last'.ret = last.ret
             /\ heap'[last'.ret.v].data = last.data
             /\ heap'[last'.ret.v].id = IntV(last'.row_id)
             /\ last'.row_id = assigned[last.table][Len(assigned[last.table])]
       /\ (last'.op = "get_by_id" /\ last'.ret # None)
          => heap'[last'.ret.v].id = IntV(last'.row_id)]_vars

\* get_by_id has returned a row whose field "id" differs from its id, from a
\* table that also stores a later row.
C6_Witness ==
    /\ last.op = "get_by_id" /\ last.ret # None
    /\ "id" \in DOMAIN heap[last.ret.v].data
    /\ heap[last.ret.v].data["id"] # heap[last.ret.v].id
    /\ heap[last.ret.v].data["id"].v \in StoredIds(last.table)

\* C7: a successful update overwrites exactly the fields named in the partial
\* data and keeps every other field of the row, its id and its place; the other
\* rows and next_id are unchanged; update succeeds exactly when a row has the id
\* and the merged fields pass every Column.
C7_UpdateFrame ==
    [][\A t \in DOMAIN tables : IsCall("update", t) =>
          /\ last'.err = NoErr <=>
                /\ last'.row_id \in StoredIds(t)
                /\ \A i \in 1..Len(tables[t].columns) :
                      Column_validate(tables[t].columns[i],
                          dict_get(Merged(heap[AddrOf(t, last'.row_id)].data, last'.data),
                                   tables[t].columns[i].name))
          /\ last'.err = NoErr =>
                LET a == AddrOf(t, last'.row_id) IN
                /\ last'.ret = RowRef(a)
                /\ heap'[a].data = Merged(heap[a].data, last'.data)
                /\ heap'[a].id = heap[a].id
                /\ tables' = tables
                /\ \A b \in Range(tables[t].rows) \ {a} : heap'[b] = heap[b]]_vars

\* A successful update that named some fields of a row and not others, on a
\* table with another row.
C7_Witness ==
    \E t \in DOMAIN tables :
        /\ last.op = "update" /\ last.table = t /\ last.err = NoErr
        /\ DOMAIN heap[last.ret.v].data \ DOMAIN last.data # {}
        /\ Len(tables[t].rows) > 1

\* C8: delete returns True exactly when a row has the id, which happens once per
\* assigned id: it returns False for an id already deleted and for an id never
\* assigned, and raises nothing.
C8_DeleteTrueOnce ==
    [][\A t \in DOMAIN tables : IsCall("delete", t) =>
          /\ last'.err = NoErr
          /\ last'.ret \in {BoolV(TRUE), BoolV(FALSE)}
          /\ last'.ret = BoolV(TRUE) <=> last'.row_id \in StoredIds(t)
          /\ last'.ret = BoolV(TRUE) =>
                /\ last'.row_id \in Range(assigned[t])
                /\ last'.row_id \notin deleted[t]
                /\ last'.row_id \notin StoredIds(t)'
          /\ last'.row_id \in deleted[t] => last'.ret = BoolV(FALSE)
          /\ last'.row_id \notin Range(assigned[t]) => last'.ret = BoolV(FALSE)]_vars

\* A second delete of an id, after later inserts, has returned False.
C8_Witness ==
    \E t \in DOMAIN tables :
        /\ last.op = "delete" /\ last.table = t
        /\ last.ret = BoolV(FALSE)
        /\ last.row_id \in deleted[t]
        /\ \E k \in StoredIds(t) : k > last.row_id

\* C9: delete of a stored id removes exactly the row with that id and leaves the
\* other rows' fields, ids and relative order, and next_id, unchanged; delete of
\* an absent id changes nothing.
C9_DeleteFrame ==
    [][\A t \in DOMAIN tables : IsCall("delete", t) =>
          IF last'.row_id \in StoredIds(t)
          THEN /\ RowsOf(t)' = SelectSeq(RowsOf(t), LAMBDA r : r.id # IntV(last'.row_id))
               /\ Len(RowsOf(t)') = Len(RowsOf(t)) - 1
               /\ tables'[t].rows = SelectSeq(tables[t].rows,
                                              LAMBDA a : a # AddrOf(t, last'.row_id))
               /\ tables'[t] = [tables[t] EXCEPT !.rows = tables'[t].rows]
          ELSE TableState(t)' = TableState(t)]_vars

\* A row between two others has been deleted.
C9_Witness ==
    \E t \in DOMAIN tables :
        /\ last.op = "delete" /\ last.table = t /\ last.ret = BoolV(TRUE)
        /\ \E i, j \in StoredIds(t) : i < last.row_id /\ last.row_id < j

\* C10: the row list, which select_all returns, holds the surviving rows (those
\* inserted and not deleted) in the order of their insertion, that is in
\* strictly increasing id order.
C10_RowsInInsertionOrder ==
    \A t \in DOMAIN tables :
        LET s == select_all(tables[t]).v
            ids == [i \in 1..Len(s) |-> heap[s[i]].id.v]
        IN /\ StrictlyIncreasing(ids)
           /\ Range(ids) = Range(assigned[t]) \ deleted[t]

\* After a delete, a later insert and an update, three rows are listed.
C10_Witness ==
    \E t \in DOMAIN tables :
        /\ last.op = "update" /\ last.err = NoErr
        /\ deleted[t] # {}
        /\ Len(tables[t].rows) = 3
        /\ heap[last.ret.v].id.v < Len(assigned[t])

(***************************************************************************)
(* A client that keeps the list select_all returned and works on it.       *)
(***************************************************************************)
MaxHeld == 3      \* length of the list the client keeps

\* A Table after the inserts of datas, in order, and the heap with its rows.
RECURSIVE Populated(_, _)
Populated(tbl, datas) ==
    IF datas = <<>> THEN Returns(<<>>, tbl, None)
    ELSE LET before == Populated(tbl, SubSeq(datas, 1, Len(datas) - 1))
         IN Table_insert(before.heap, before.table, datas[Len(datas)])

\* Row.__setitem__: self.data[key] = value.
Row_setitem(h, a, key, value) == [h EXCEPT ![a].data = (key :> value) @@ @]

\* What the client's own statements leave in last: no Table method is called.
ClientStep(op, data) ==
    [op |-> op, table |-> "", row_id |-> 0, data |-> data, ret |-> None, err |-> NoErr]

\* rows = table.select_all(): the client keeps the list just returned.
KeepList ==
    /\ last.op = "select_all"
    /\ held' = last.ret
    /\ UNCHANGED <<heap, tables, last, assigned, deleted, instance, query>>

\* rows.append(row), with a Row the client already has.
ListAppend(a) ==
    /\ held.tag = "list" /\ Len(held.v) < MaxHeld
    /\ held' = ListV(Append(held.v, a))
    /\ last' = ClientStep("list.append", EmptyDict)
    /\ UNCHANGED <<heap, tables, assigned, deleted, instance, query>>

\* del rows[i].
ListDelete(i) ==
    /\ held.tag = "list" /\ i \in 1..Len(held.v)
    /\ held' = ListV(SubSeq(held.v, 1, i - 1) \o SubSeq(held.v, i + 1, Len(held.v)))
    /\ last' = ClientStep("list.__delitem__", EmptyDict)
    /\ UNCHANGED <<heap, tables, assigned, deleted, instance, query>>

\* rows.reverse().
ListReverse ==
    /\ held.tag = "list" /\ Len(held.v) > 1
    /\ held' = ListV([i \in 1..Len(held.v) |-> held.v[Len(held.v) + 1 - i]])
    /\ last' = ClientStep("list.reverse", EmptyDict)
    /\ UNCHANGED <<heap, tables, assigned, deleted, instance, query>>

\* rows[i][key] = value.
RowSetItem(i, key, value) ==
    /\ held.tag = "list" /\ i \in 1..Len(held.v)
    /\ heap' = Row_setitem(heap, held.v[i], key, value)
    /\ last' = ClientStep("Row.__setitem__", (key :> value))
    /\ UNCHANGED <<tables, assigned, deleted, held, instance, query>>

ClientWrites == { <<"name", None>>, <<"name", StrV("abc")>>, <<"id", None>> }

ClientInit ==
    /\ \E p \in { Populated(Table("users", UsersColumns),
                            << ("id" :> IntV(2)) @@ ("name" :> StrV("ab")),
                               ("id" :> IntV(2)) >>) } :
          /\ tables = ("users" :> p.table)
          /\ heap = p.heap
    /\ last = Call("", "", 0, EmptyDict, Returns(heap, <<>>, None))
    /\ assigned = [t \in DOMAIN tables |-> <<1, 2>>]
    /\ deleted = [t \in DOMAIN tables |-> {}]
    /\ held = None
    /\ instance = None
    /\ query = None

ClientNext ==
    \/ \E t \in DOMAIN tables : SelectAll(t)
    \/ KeepList
    \/ \E a \in DOMAIN heap : ListAppend(a)
    \/ \E i \in 1..MaxHeld : ListDelete(i)
    \/ ListReverse
    \/ \E i \in 1..MaxHeld, w \in ClientWrites : RowSetItem(i, w[1], w[2])

SpecClient == ClientInit /\ [][ClientNext]_vars

\* C11: whatever a client does with the list select_all returned (appending,
\* deleting, reordering its elements, writing fields of its Rows), the Table's
\* row list and its rows' fields stay as they were and every stored row still
\* satisfies the schema.
C11_SelectAllIsolates ==
    [][last'.op \in {"list.append", "list.__delitem__", "list.reverse", "Row.__setitem__"}
          => \A t \in DOMAIN tables :
                /\ TableState(t)' = TableState(t)
                /\ C4_RowsSatisfySchema']_vars

\* What does hold: the statements on the list itself leave the Table alone.
C11_ListStatementsIsolated ==
    [][last'.op \in {"list.append", "list.__delitem__", "list.reverse"}
          => \A t \in DOMAIN tables : TableState(t)' = TableState(t)]_vars

(***************************************************************************)
(* Database: the singleton and its catalog of Tables.  In the              *)
(* specification of the Database, Table objects are kept in tables under   *)
(* their address, and the Database's dict maps a name to that address.     *)
(***************************************************************************)
TableRef(k) == [tag |-> "Table", v |-> k]
DatabaseRef(oid) == [tag |-> "Database", v |-> oid]
TupleV(s) == [tag |-> "tuple", v |-> s]

\* What a call on the Database leaves behind: the Database object, the Table
\* objects, the value returned and the exception raised.
DbReturns(db, store, value) == [db |-> db, store |-> store, ret |-> value, err |-> NoErr]
DbRaises(db, store, e) == [db |-> db, store |-> store, ret |-> None, err |-> e]

\* A Database object: its identity and its attributes (the object's __dict__).
DatabaseObject(oid, attrs) == [tag |-> "Database", v |-> [oid |-> oid, attrs |-> attrs]]
db_tables(db) == db.v.attrs["tables"]

\* __new__: the instance is made at the first call and returned at every call.
Database_new(inst) ==
    IF inst = None THEN DatabaseObject(1, EmptyDict) ELSE inst

\* Mutant of Database_init: the attributes are set at every call.
Database_init_always(db, name) ==
    [db EXCEPT !.v.attrs = ("name" :> StrV(name)) @@ ("tables" :> EmptyDict)
                              @@ ("_initialized" :> BoolV(TRUE))]

\* __init__: sets the attributes unless the object is already initialized.
Database_init(db, name) ==
    IF "_initialized" \in DOMAIN db.v.attrs /\ db.v.attrs["_initialized"] = BoolV(TRUE)
    THEN db
    ELSE [db EXCEPT !.v.attrs = ("name" :> StrV(name)) @@ ("tables" :> EmptyDict)
                                  @@ ("_initialized" :> BoolV(TRUE))]

\* Database(name): __new__, then __init__ on the object it returned.
Database(inst, name) == Database_init(Database_new(inst), name)

\* The place of the column called name in a Table's columns, 0 when there is none.
column_index(tbl, name) ==
    LET hits == {i \in 1..Len(tbl.columns) : tbl.columns[i].name = name}
    IN IF hits = {} THEN 0 ELSE SetMin(hits)

\* The foreign-key check of one column: NoErr, or the ValueError it raises.
foreign_key_error(db, store, col) ==
    IF col.foreign_key = NoForeignKey THEN NoErr
    ELSE LET ref_table_name == col.foreign_key[1]
             ref_column_name == col.foreign_key[2]
         IN IF ref_table_name \notin DOMAIN db_tables(db)
            THEN ValueError("Referenced table does not exist", ref_table_name)
            ELSE LET ref_table == store[db_tables(db)[ref_table_name]] IN
                 IF column_index(ref_table, ref_column_name) = 0
                 THEN ValueError("Referenced column does not exist in table", ref_column_name)
                 ELSE IF ~ref_table.columns[column_index(ref_table, ref_column_name)].primary_key
                 THEN ValueError("Foreign key must reference a primary key column", "")
                 ELSE NoErr

\* The address of a new Table object.
NewKey(store) == Cardinality(DOMAIN store) + 1

\* Mutant of create_table: no check that the name is free.
create_table_overwrite(db, store, name, columns) ==
    LET bad == {i \in 1..Len(columns) : foreign_key_error(db, store, columns[i]) # NoErr} IN
    IF bad # {} THEN DbRaises(db, store, foreign_key_error(db, store, columns[SetMin(bad)]))
    ELSE LET k == NewKey(store) IN
         DbReturns([db EXCEPT !.v.attrs["tables"] = (name :> k) @@ @],
                   (k :> Table(name, columns)) @@ store, TableRef(k))

\* Mutant of create_table: the primary_key flag of the referenced column is not looked at.
create_table_any_column(db, store, name, columns) ==
    LET known(col) ==
            \/ col.foreign_key = NoForeignKey
            \/ /\ col.foreign_key[1] \in DOMAIN db_tables(db)
               /\ column_index(store[db_tables(db)[col.foreign_key[1]]], col.foreign_key[2]) # 0
        bad == {i \in 1..Len(columns) : ~known(columns[i])}
    IN IF name \in DOMAIN db_tables(db)
       THEN DbRaises(db, store, ValueError("Table already exists", name))
       ELSE IF bad # {}
       THEN DbRaises(db, store, foreign_key_error(db, store, columns[SetMin(bad)]))
       ELSE LET k == NewKey(store) IN
            DbReturns([db EXCEPT !.v.attrs["tables"] = (name :> k) @@ @],
                      (k :> Table(name, columns)) @@ store, TableRef(k))

\* Mutant of create_table: the checks of a column stop at the first that
\* applies to the column list, not to the column.
create_table_table_first(db, store, name, columns) ==
    LET errs == {foreign_key_error(db, store, columns[i]) : i \in 1..Len(columns)} \ {NoErr}
        unknown == {e \in errs : e.msg = "Referenced table does not exist"}
    IN IF name \in DOMAIN db_tables(db)
       THEN DbRaises(db, store, ValueError("Table already exists", name))
       ELSE IF unknown # {} THEN DbRaises(db, store, CHOOSE e \in unknown : TRUE)
       ELSE IF errs # {} THEN DbRaises(db, store, CHOOSE e \in errs : TRUE)
       ELSE LET k == NewKey(store) IN
            DbReturns([db EXCEPT !.v.attrs["tables"] = (name :> k) @@ @],
                      (k :> Table(name, columns)) @@ store, TableRef(k))

\* Mutant of create_table: the Table is registered before its foreign keys are checked.
create_table_register_first(db, store, name, columns) ==
    LET bad == {i \in 1..Len(columns) : foreign_key_error(db, store, columns[i]) # NoErr}
        k == NewKey(store)
        registered == [db EXCEPT !.v.attrs["tables"] = (name :> k) @@ @]
        stored == (k :> Table(name, columns)) @@ store
    IN IF name \in DOMAIN db_tables(db)
       THEN DbRaises(db, store, ValueError("Table already exists", name))
       ELSE IF bad # {}
       THEN DbRaises(registered, stored, foreign_key_error(db, store, columns[SetMin(bad)]))
       ELSE DbReturns(registered, stored, TableRef(k))

\* Mutant of create_table: the foreign keys are checked against the registry
\* that already holds the new Table.
create_table_self(db, store, name, columns) ==
    LET k == NewKey(store)
        registered == [db EXCEPT !.v.attrs["tables"] = (name :> k) @@ @]
        stored == (k :> Table(name, columns)) @@ store
        bad == {i \in 1..Len(columns) :
                   foreign_key_error(registered, stored, columns[i]) # NoErr}
    IN IF name \in DOMAIN db_tables(db)
       THEN DbRaises(db, store, ValueError("Table already exists", name))
       ELSE IF bad # {}
       THEN DbRaises(db, store, foreign_key_error(registered, stored, columns[SetMin(bad)]))
       ELSE DbReturns(registered, stored, TableRef(k))

\* create_table: the name must be free; the columns are walked in order and the
\* first foreign key that fails a check raises; then the Table is made and registered.
create_table(db, store, name, columns) ==
    LET bad == {i \in 1..Len(columns) : foreign_key_error(db, store, columns[i]) # NoErr} IN
    IF name \in DOMAIN db_tables(db)
    THEN DbRaises(db, store, ValueError("Table already exists", name))
    ELSE IF bad # {}
    THEN DbRaises(db, store, foreign_key_error(db, store, columns[SetMin(bad)]))
    ELSE LET k == NewKey(store) IN
         DbReturns([db EXCEPT !.v.attrs["tables"] = (name :> k) @@ @],
                   (k :> Table(name, columns)) @@ store, TableRef(k))

\* Mutant of get_table: a copy of the Table is returned.
get_table_copy(db, store, name) ==
    IF name \notin DOMAIN db_tables(db) THEN DbRaises(db, store, KeyError(name))
    ELSE LET k == NewKey(store) IN
         DbReturns(db, (k :> store[db_tables(db)[name]]) @@ store, TableRef(k))

\* get_table: self.tables[name], the Table object itself, or KeyError.
get_table(db, store, name) ==
    IF name \notin DOMAIN db_tables(db) THEN DbRaises(db, store, KeyError(name))
    ELSE DbReturns(db, store, TableRef(db_tables(db)[name]))

\* col_def.get(key, default).
col_get(col_def, key, default) == IF key \in DOMAIN col_def THEN col_def[key] ELSE default

TypeTags == {"int", "string", "bool", "date"}

\* The DataType a descriptor's type tag stands for (the tag is one of TypeTags).
data_type_of(col_def) ==
    CASE col_def["type"] = "int" -> IntegerType
      [] col_def["type"] = "string" -> StringType(col_get(col_def, "max_length", None))
      [] col_def["type"] = "bool" -> BooleanType
      [] col_def["type"] = "date" -> DateType

\* Mutant of column_of: a column is not nullable unless the descriptor says so.
column_of_not_nullable(col_def) ==
    LET fk == col_get(col_def, "foreign_key", None) IN
    Column(col_def["name"], data_type_of(col_def),
           col_get(col_def, "nullable", FALSE),
           col_get(col_def, "primary_key", FALSE),
           IF fk # None THEN fk.v ELSE NoForeignKey)

\* The Column made from a descriptor; tuple(fk) keeps the two names of fk.
column_of(col_def) ==
    LET fk == col_get(col_def, "foreign_key", None) IN
    Column(col_def["name"], data_type_of(col_def),
           col_get(col_def, "nullable", TRUE),
           col_get(col_def, "primary_key", FALSE),
           IF fk # None THEN fk.v ELSE NoForeignKey)

\* create_table_with_factory: the descriptors are translated in order, the
\* first unknown type tag raises; then create_table is called with the Columns.
create_table_with_factory(db, store, name, schema) ==
    LET columns_def == col_get(schema, "columns", <<>>)
        unknown == {i \in 1..Len(columns_def) : columns_def[i]["type"] \notin TypeTags}
    IN IF unknown # {}
       THEN DbRaises(db, store, ValueError("Unknown type", columns_def[SetMin(unknown)]["type"]))
       ELSE create_table(db, store, name,
                         [i \in 1..Len(columns_def) |-> column_of(columns_def[i])])

(***************************************************************************)
(* The calls a client makes on the Database and on its Tables.             *)
(***************************************************************************)
DbMaxInserts == 1   \* successful inserts per table of the Database

DbCall(op, name, arg, r) ==
    [op |-> op, table |-> 0, row_id |-> 0,
     data |-> ("arg:name" :> StrV(name)) @@ ("arg:columns" :> ListV(arg)),
     ret |-> r.ret, err |-> r.err]

\* The histories of the Tables of store: those of new Tables start empty.
Grown(hist, store, empty) ==
    [k \in DOMAIN store |-> IF k \in DOMAIN hist THEN hist[k] ELSE empty]

DbDone(r, l) ==
    /\ instance' = r.db
    /\ tables' = r.store
    /\ last' = l
    /\ heap' = Collect(heap, tables', l)
    /\ assigned' = Grown(assigned, r.store, <<>>)
    /\ deleted' = Grown(deleted, r.store, {})
    /\ UNCHANGED <<held, query>>

NewDatabase(name) ==
    \E db \in {Database(instance, name)} :
        DbDone(DbReturns(db, tables, DatabaseRef(db.v.oid)), 
               DbCall("Database", name, <<>>, DbReturns(db, tables, DatabaseRef(db.v.oid))))

CreateTable(name, columns) ==
    /\ instance # None
    /\ \E r \in {create_table(instance, tables, name, columns)} :
          DbDone(r, DbCall("create_table", name, columns, r))

CreateTableWithFactory(name, schema) ==
    /\ instance # None
    /\ \E r \in {create_table_with_factory(instance, tables, name, schema)} :
          DbDone(r, DbCall("create_table_with_factory", name, col_get(schema, "columns", <<>>), r))

GetTable(name) ==
    /\ instance # None
    /\ \E r \in {get_table(instance, tables, name)} :
          DbDone(r, DbCall("get_table", name, <<>>, r))

DbInsert(k, row_data) ==
    /\ tables[k].next_id <= DbMaxInserts
    /\ Insert(k, row_data)

(***************************************************************************)
(* The column lists, schemas and rows the Database is tried with.          *)
(***************************************************************************)
IdColumn == Column("id", IntegerType, FALSE, TRUE, NoForeignKey)
RefColumn(name, t, c) == Column(name, IntegerType, TRUE, FALSE, <<t, c>>)

PlainColumns == << IdColumn, Column("name", StringType(IntV(2)), TRUE, FALSE, NoForeignKey) >>
OrdersColumns == << IdColumn, RefColumn("user_id", "users", "id") >>
GhostTableColumns == << IdColumn, RefColumn("user_id", "ghost", "id") >>
GhostColumnColumns == << IdColumn, RefColumn("user_id", "users", "nope") >>
NotPrimaryColumns == << IdColumn, RefColumn("user_id", "users", "name") >>
TwoDefectsColumns ==
    << IdColumn, RefColumn("a", "users", "name"), RefColumn("b", "ghost", "id") >>

\* Two Columns of one name, the first a primary key and the last not; a foreign
\* key to a Table that does not exist on a Column that a later one shadows.
DuplicateColumns ==
    << IdColumn, Column("id", StringType(IntV(2)), TRUE, FALSE, NoForeignKey) >>
ShadowedGhostColumns == << RefColumn("id", "ghost", "id"), IdColumn >>
\* A foreign key to the Table being created, and one to a Table that refers
\* to this one.
SelfRefColumns == << IdColumn, RefColumn("boss", "users", "id") >>
CycleColumns == << IdColumn, RefColumn("order_id", "orders", "id") >>
\* A foreign key to the Table being created, after one to a column that is not
\* a primary key.
LateSelfRefColumns ==
    << IdColumn, RefColumn("user_id", "users", "name"), RefColumn("parent", "orders", "id") >>

CreateInputs ==
    { <<"users", PlainColumns>>, <<"users", GhostTableColumns>>,
      <<"orders", OrdersColumns>>, <<"orders", GhostTableColumns>>,
      <<"orders", GhostColumnColumns>>, <<"orders", NotPrimaryColumns>>,
      <<"orders", TwoDefectsColumns>>,
      <<"users", DuplicateColumns>>, <<"orders", ShadowedGhostColumns>>,
      <<"users", SelfRefColumns>>, <<"users", CycleColumns>>,
      <<"orders", LateSelfRefColumns>> }

IdDescriptor ==
    ("name" :> "id") @@ ("type" :> "int") @@ ("nullable" :> FALSE) @@ ("primary_key" :> TRUE)
UsersSchema ==
    ("columns" :> << IdDescriptor,
                     ("name" :> "name") @@ ("type" :> "string") @@ ("max_length" :> IntV(2)) >>)
OrdersSchema ==
    ("columns" :> << IdDescriptor,
                     ("name" :> "user_id") @@ ("type" :> "int")
                        @@ ("foreign_key" :> TupleV(<<"users", "id">>)) >>)
FloatSchema ==
    ("columns" :> << ("name" :> "user_id") @@ ("type" :> "int")
                        @@ ("foreign_key" :> TupleV(<<"ghost", "id">>)),
                     ("name" :> "price") @@ ("type" :> "float") >>)
EventsSchema ==
    ("columns" :> << ("name" :> "day") @@ ("type" :> "date") @@ ("nullable" :> FALSE),
                     ("name" :> "flag") @@ ("type" :> "bool"),
                     ("name" :> "note") @@ ("type" :> "string") >>)
NotPrimarySchema ==
    ("columns" :> << IdDescriptor,
                     ("name" :> "user_id") @@ ("type" :> "int")
                        @@ ("foreign_key" :> TupleV(<<"users", "name">>)) >>)

FactoryInputs ==
    { <<"users", UsersSchema>>, <<"orders", OrdersSchema>>, <<"orders", FloatSchema>>,
      <<"users", FloatSchema>>, <<"orders", EventsSchema>>, <<"orders", NotPrimarySchema>> }

DatabaseNames == {"testdb", "another"}
TableNames == {"users", "orders", "ghost"}

HasColumn(tbl, name) == column_index(tbl, name) # 0
\* Rows for a Table of the Database: a referencing row whose user_id no users
\* row need have; a users row; a row without id, which every such Table rejects.
DbInsertInputs(tbl) ==
    IF ~HasColumn(tbl, "id") THEN {}
    ELSE IF HasColumn(tbl, "user_id")
    THEN { ("id" :> IntV(5)) @@ ("user_id" :> IntV(1)), ("user_id" :> IntV(1)) }
    ELSE { ("id" :> IntV(1)) @@ ("name" :> StrV("ab")), ("name" :> StrV("ab")) }
DbUpdateInputs(tbl) ==
    IF HasColumn(tbl, "user_id")
    THEN { ("user_id" :> IntV(7)) }
    ELSE { ("id" :> IntV(9)) }
DbRowIds == 0..DbMaxInserts

DbInit ==
    /\ tables = <<>>
    /\ heap = <<>>
    /\ last = Call("", 0, 0, EmptyDict, Returns(heap, <<>>, None))
    /\ assigned = <<>>
    /\ deleted = <<>>
    /\ held = None
    /\ instance = None
    /\ query = None

DbNext ==
    \/ \E name \in DatabaseNames : NewDatabase(name)
    \/ \E c \in CreateInputs : CreateTable(c[1], c[2])
    \/ \E c \in FactoryInputs : CreateTableWithFactory(c[1], c[2])
    \/ \E name \in TableNames : GetTable(name)
    \/ \E k \in DOMAIN tables : \E row_data \in DbInsertInputs(tables[k]) : DbInsert(k, row_data)
    \/ \E k \in DOMAIN tables, row_id \in DbRowIds :
          \E new_data \in DbUpdateInputs(tables[k]) : Update(k, row_id, new_data)
    \/ \E k \in DOMAIN tables, row_id \in DbRowIds : Delete(k, row_id)

SpecDb == DbInit /\ [][DbNext]_vars

(***************************************************************************)
(* Properties of the Database.                                             *)
(***************************************************************************)
\* The catalog of the Database: the names registered and the Table of a name.
Registry == db_tables(instance)
Registered(name) == tables[Registry[name]]
\* The Table of a name after the step.
RegisteredAfter(name) == tables'[Registry'[name]]
\* The arguments of the call on the Database that a step makes.
ArgName == last'.data["arg:name"].v
ArgColumns == last'.data["arg:columns"].v
\* The errors, told apart by the exception and its message.
DuplicateTableError(e) == e.type = "ValueError" /\ e.msg = "Table already exists"
UnknownTableError(e) ==
    \/ e.type = "ValueError" /\ e.msg = "Referenced table does not exist"
    \/ e.type = "KeyError"
UnknownColumnError(e) ==
    e.type = "ValueError" /\ e.msg = "Referenced column does not exist in table"
NotPrimaryKeyError(e) ==
    e.type = "ValueError" /\ e.msg = "Foreign key must reference a primary key column"
UnknownTypeError(e) == e.type = "ValueError" /\ e.msg = "Unknown type"
\* What is wrong with the foreign key of a column, in the state before the call.
Defect(col) ==
    IF col.foreign_key = NoForeignKey THEN "none"
    ELSE IF col.foreign_key[1] \notin DOMAIN Registry THEN "table"
    ELSE IF \A c \in Range(Registered(col.foreign_key[1]).columns) :
                c.name # col.foreign_key[2]
    THEN "column"
    ELSE IF \E c \in Range(Registered(col.foreign_key[1]).columns) :
                c.name = col.foreign_key[2] /\ ~c.primary_key
    THEN "primary_key"
    ELSE "none"
\* The Database, its Tables and their rows are what they were before the step.
DbUnchanged == instance' = instance /\ tables' = tables /\ heap' = heap

\* C12: every foreign key declared on a column of a registered Table names a
\* registered Table and a column of it that is flagged primary_key.
C12_ForeignKeysResolve ==
    instance # None =>
        \A name \in DOMAIN Registry :
            \A col \in Range(Registered(name).columns) :
                col.foreign_key # NoForeignKey =>
                    /\ col.foreign_key[1] \in DOMAIN Registry
                    /\ \E c \in Range(Registered(col.foreign_key[1]).columns) :
                          c.name = col.foreign_key[2] /\ c.primary_key

C12_Witness ==
    /\ instance # None
    /\ \E name \in DOMAIN Registry :
          \E col \in Range(Registered(name).columns) :
              /\ col.foreign_key = <<"users", "id">>
              /\ Registered("users").rows # <<>>

\* C13: create_table on a free name fails when a column's foreign key names an
\* unregistered table (unknown table), a column the referenced table lacks
\* (unknown column) or a column not flagged primary_key (not a primary key),
\* the first column with such a defect deciding the error; with no such
\* column it registers an empty Table with next_id 1 under the name and returns it.
C13_CreateTableOutcome ==
    [][(last'.op = "create_table" /\ ArgName \notin DOMAIN Registry) =>
          LET defective == {i \in 1..Len(ArgColumns) : Defect(ArgColumns[i]) # "none"}
              first == Defect(ArgColumns[SetMin(defective)])
          IN IF defective # {}
             THEN /\ first = "table" => UnknownTableError(last'.err)
                  /\ first = "column" => UnknownColumnError(last'.err)
                  /\ first = "primary_key" => NotPrimaryKeyError(last'.err)
                  /\ last'.err.type = "ValueError"
             ELSE /\ last'.err = NoErr
                  /\ DOMAIN Registry' = DOMAIN Registry \cup {ArgName}
                  /\ last'.ret = TableRef(Registry'[ArgName])
                  /\ Registry'[ArgName] \notin DOMAIN tables
                  /\ RegisteredAfter(ArgName).name = ArgName
                  /\ RegisteredAfter(ArgName).columns = columns_dict(ArgColumns)
                  /\ RegisteredAfter(ArgName).rows = <<>>
                  /\ RegisteredAfter(ArgName).next_id = 1]_vars

C13_Witness ==
    /\ last.op = "create_table"
    /\ NotPrimaryKeyError(last.err)
    /\ last.data["arg:columns"].v = TwoDefectsColumns
    /\ "users" \in DOMAIN Registry
    /\ "orders" \notin DOMAIN Registry

\* C14: create_table with a registered name fails with the duplicate-table
\* error whatever the columns, and the Table registered under the name stays
\* registered, the same object with the same rows and next_id.
C14_DuplicateNameRejected ==
    [][(last'.op = "create_table" /\ ArgName \in DOMAIN Registry) =>
          /\ DuplicateTableError(last'.err)
          /\ Registry' = Registry
          /\ RegisteredAfter(ArgName) = Registered(ArgName)
          /\ \A a \in Range(Registered(ArgName).rows) : heap'[a] = heap[a]]_vars

C14_Witness ==
    /\ last.op = "create_table"
    /\ DuplicateTableError(last.err)
    /\ last.data["arg:columns"].v = GhostTableColumns
    /\ Registered(last.data["arg:name"].v).rows # <<>>
    /\ Registered(last.data["arg:name"].v).next_id > 1

\* C15: a create_table or create_table_with_factory call that fails leaves the
\* Database as it was: the same names, the same Tables with the same rows, and
\* get_table answers for every name as it did before the call.
C15_FailedCreateChangesNothing ==
    [][(last'.op \in {"create_table", "create_table_with_factory"} /\ last'.err # NoErr) =>
          /\ DbUnchanged
          /\ \A name \in TableNames :
                get_table(instance', tables', name) = get_table(instance, tables, name)]_vars

C15_Witness ==
    /\ last.op = "create_table_with_factory"
    /\ NotPrimaryKeyError(last.err)
    /\ last.data["arg:name"].v \notin DOMAIN Registry
    /\ \E name \in DOMAIN Registry : Registered(name).rows # <<>>

\* C16: the Database is a singleton: the first Database(name) makes the object,
\* named name and with no tables; every later Database(name) returns that same
\* object whatever name it is given, with its name and its registered Tables
\* as they were.
C16_Singleton ==
    [][last'.op = "Database" =>
          IF instance = None
          THEN /\ instance'.v.attrs["name"] = StrV(ArgName)
               /\ Registry' = EmptyDict
               /\ last'.ret = DatabaseRef(instance'.v.oid)
          ELSE /\ last'.ret = DatabaseRef(instance.v.oid)
               /\ instance'.v.oid = instance.v.oid
               /\ instance'.v.attrs["name"] = instance.v.attrs["name"]
               /\ Registry' = Registry
               /\ DbUnchanged]_vars

C16_Witness ==
    /\ last.op = "Database"
    /\ last.data["arg:name"] # instance.v.attrs["name"]
    /\ \E name \in DOMAIN Registry : Registered(name).rows # <<>>

\* C17: get_table changes nothing; it raises (KeyError) for a name that is not
\* registered and returns the registered Table object itself otherwise, the
\* object a name is bound to being the same at every later call, so that the
\* rows put, changed or removed through it are those every caller sees.
C17_GetTableLive ==
    [][/\ last'.op = "get_table" =>
            /\ DbUnchanged
            /\ IF ArgName \notin DOMAIN Registry
               THEN UnknownTableError(last'.err)
               ELSE last'.err = NoErr /\ last'.ret = TableRef(Registry[ArgName])
       /\ instance # None =>
            \A name \in DOMAIN Registry :
                /\ name \in DOMAIN Registry'
                /\ Registry'[name] = Registry[name]
                /\ (last'.op \in {"insert", "update", "delete"} /\ last'.table = Registry[name])
                      => get_table(instance', tables', name).ret = TableRef(last'.table)]_vars

C17_Witness ==
    /\ last.op = "get_table"
    /\ last.err = NoErr
    /\ tables[last.ret.v].rows # <<>>
    /\ last.ret = TableRef(Registry[last.data["arg:name"].v])

\* The Column the specification's translation gives for a descriptor:
\* nullable defaults to true, primary_key to false, foreign_key to absent.
C18_Translated(d) ==
    [name |-> d["name"],
     data_type |-> CASE d["type"] = "int" -> IntegerType
                     [] d["type"] = "string" ->
                           StringType(IF "max_length" \in DOMAIN d THEN d["max_length"] ELSE None)
                     [] d["type"] = "bool" -> BooleanType
                     [] d["type"] = "date" -> DateType,
     nullable |-> IF "nullable" \in DOMAIN d THEN d["nullable"] ELSE TRUE,
     primary_key |-> IF "primary_key" \in DOMAIN d THEN d["primary_key"] ELSE FALSE,
     foreign_key |-> IF "foreign_key" \in DOMAIN d /\ d["foreign_key"] # None
                     THEN d["foreign_key"].v ELSE NoForeignKey]

\* C18: create_table_with_factory raises the unknown-type error, changing
\* nothing, when a descriptor's type tag is not int, string, bool or date;
\* otherwise it does what create_table does on the translated Columns: the
\* same error or the same Table registered and returned.
C18_FactoryDelegates ==
    [][last'.op = "create_table_with_factory" =>
          IF \E i \in 1..Len(ArgColumns) :
                ArgColumns[i]["type"] \notin {"int", "string", "bool", "date"}
          THEN UnknownTypeError(last'.err) /\ DbUnchanged
          ELSE \E r \in {create_table(instance, tables, ArgName,
                           [i \in 1..Len(ArgColumns) |-> C18_Translated(ArgColumns[i])])} :
                  /\ instance' = r.db
                  /\ tables' = r.store
                  /\ last'.ret = r.ret
                  /\ last'.err = r.err]_vars

C18_Witness ==
    /\ last.op = "create_table_with_factory"
    /\ last.err = NoErr
    /\ \E d \in Range(last.data["arg:columns"].v) :
          "nullable" \notin DOMAIN d /\ "foreign_key" \in DOMAIN d
    /\ \E col \in Range(tables[last.ret.v].columns) :
          col.nullable /\ col.foreign_key = <<"users", "id">>

\* Every column of the Table accepts the value the dict has for it.
AllColumnsAccept(tbl, data) ==
    \A col \in Range(tbl.columns) : Column_validate(col, dict_get(data, col.name))
\* The rows of the Table whose foreign-key column user_id has the value v.
Referencing(k, v) == {a \in Range(tables[k].rows) : dict_get(heap[a].data, "user_id") = v}

\* C19: no insert, update or delete on a Table of the Database is rejected or
\* altered because of a foreign key: an insert succeeds exactly when every
\* column accepts its value, an update of a stored row exactly when every
\* column accepts the merged value, whether or not a row of the referenced
\* Table has the value; a delete of a stored row returns True, and each of
\* these calls leaves every other Table and its rows as they were.
C19_ForeignKeysNotEnforced ==
    [][\A k \in DOMAIN tables :
          /\ IsCall("insert", k) =>
                /\ (last'.err = NoErr) = AllColumnsAccept(tables[k], last'.data)
                /\ last'.err = NoErr => heap'[last'.ret.v].data = last'.data
          /\ (IsCall("update", k) /\ last'.row_id \in StoredIds(k)) =>
                /\ (last'.err = NoErr)
                      = AllColumnsAccept(tables[k],
                                         Merged(heap[AddrOf(k, last'.row_id)].data, last'.data))
                /\ last'.err = NoErr =>
                      heap'[last'.ret.v].data
                          = Merged(heap[AddrOf(k, last'.row_id)].data, last'.data)
          /\ (IsCall("delete", k) /\ last'.row_id \in StoredIds(k)) =>
                /\ last'.ret = BoolV(TRUE)
                /\ last'.row_id \notin StoredIds(k)'
          /\ last'.op \in {"insert", "update", "delete"} /\ last'.table = k =>
                \A k2 \in DOMAIN tables \ {k} : TableState(k2)' = TableState(k2)]_vars

\* A referenced users row was deleted and the orders row that refers to its
\* id is still stored.
C19_Witness ==
    /\ last.op = "delete"
    /\ last.ret = BoolV(TRUE)
    /\ "orders" \in DOMAIN Registry
    /\ last.table = Registry["users"]
    /\ Registered("users").rows = <<>>
    /\ Referencing(Registry["orders"], IntV(1)) # {}

(***************************************************************************)
(* SimpleQuery: a builder over a Table, and the comparisons it makes.      *)
(***************************************************************************)
TypeError(msg) == [type |-> "TypeError", msg |-> msg, arg |-> ""]

\* The number an int or a bool is in a comparison (True is 1, False is 0).
Num(value) == IF value.tag = "bool" THEN (IF value.v THEN 1 ELSE 0) ELSE value.v

\* The characters the strings of the model are made of, in code-point order.
CodePoints ==
    << "-", "0", "1", "2", "3", "4", "5", "6", "7", "8", "9",
       "A", "B", "C", "D", "E", "F", "G", "H", "I", "J", "K", "L", "M",
       "N", "O", "P", "Q", "R", "S", "T", "U", "V", "W", "X", "Y", "Z",
       "a", "b", "c", "d", "e", "f", "g", "h", "i", "j", "k", "l", "m",
       "n", "o", "p", "q", "r", "s", "t", "u", "v", "w", "x", "y", "z" >>
ord(c) == CHOOSE i \in DOMAIN CodePoints : CodePoints[i] = c

\* str < str: the first place where the strings differ decides, a proper prefix is less.
RECURSIVE str_lt(_, _)
str_lt(a, b) ==
    IF Len(b) = 0 THEN FALSE
    ELSE IF Len(a) = 0 THEN TRUE
    ELSE IF Char(a, 1) = Char(b, 1)
    THEN str_lt(SubSeq(a, 2, Len(a)), SubSeq(b, 2, Len(b)))
    ELSE ord(Char(a, 1)) < ord(Char(b, 1))

\* date < date: year, then month, then day.
date_lt(a, b) ==
    \/ a[1] < b[1]
    \/ a[1] = b[1] /\ a[2] < b[2]
    \/ a[1] = b[1] /\ a[2] = b[2] /\ a[3] < b[3]

\* a == b: numbers by value (True == 1), anything else by type and value.
py_eq(a, b) ==
    IF isinstance_int(a) /\ isinstance_int(b) THEN Num(a) = Num(b)
    ELSE a.tag = b.tag /\ a.v = b.v

\* Whether a < b is defined; it raises TypeError otherwise (None is never orderable).
py_orderable(a, b) ==
    \/ isinstance_int(a) /\ isinstance_int(b)
    \/ isinstance_str(a) /\ isinstance_str(b)
    \/ isinstance_date(a) /\ isinstance_date(b)

\* a < b for orderable a and b.
py_lt(a, b) ==
    IF isinstance_int(a) THEN Num(a) < Num(b)
    ELSE IF isinstance_str(a) THEN str_lt(a.v, b.v)
    ELSE date_lt(a.v, b.v)

\* A SimpleQuery object as __init__ leaves it; table is the Table it iterates.
SimpleQuery(t) ==
    [tag |-> "SimpleQuery",
     v |-> [table |-> t, selected_columns |-> None, filter_conditions |-> <<>>,
            sort_column |-> None, sort_ascending |-> TRUE]]

\* One turn of the loop of _matches on a condition <<column, operator, value>>:
\* the row passes it, fails it, or reading or comparing its value raises.
Pass == [pass |-> TRUE, err |-> NoErr]
Fail == [pass |-> FALSE, err |-> NoErr]
\* Mutant of condition_result: a clause of an operator that is not known fails.
condition_result_unknown_fails(data, cond) ==
    IF cond[1] \notin DOMAIN data THEN [pass |-> FALSE, err |-> KeyError(cond[1])]
    ELSE LET row_value == data[cond[1]]
             value == cond[3]
             ordered(holds) ==
                 IF ~py_orderable(row_value, value)
                 THEN [pass |-> FALSE, err |-> TypeError("not supported between instances")]
                 ELSE IF holds THEN Pass ELSE Fail
         IN CASE cond[2] = "=" -> IF py_eq(row_value, value) THEN Pass ELSE Fail
              [] cond[2] = ">" -> ordered(py_lt(value, row_value))
              [] cond[2] = "<" -> ordered(py_lt(row_value, value))
              [] cond[2] = ">=" -> ordered(~py_lt(row_value, value))
              [] cond[2] = "<=" -> ordered(~py_lt(value, row_value))
              [] cond[2] = "!=" -> IF py_eq(row_value, value) THEN Fail ELSE Pass
              [] OTHER -> Fail

\* Mutant of condition_result: a null fails an ordering comparison, as in SQL.
condition_result_null_fails(data, cond) ==
    IF cond[1] \notin DOMAIN data THEN [pass |-> FALSE, err |-> KeyError(cond[1])]
    ELSE LET row_value == data[cond[1]]
             value == cond[3]
             ordered(holds) ==
                 IF row_value = None THEN Fail
                 ELSE IF ~py_orderable(row_value, value)
                 THEN [pass |-> FALSE, err |-> TypeError("not supported between instances")]
                 ELSE IF holds THEN Pass ELSE Fail
         IN CASE cond[2] = "=" -> IF py_eq(row_value, value) THEN Pass ELSE Fail
              [] cond[2] = ">" -> ordered(py_lt(value, row_value))
              [] cond[2] = "<" -> ordered(py_lt(row_value, value))
              [] cond[2] = ">=" -> ordered(~py_lt(row_value, value))
              [] cond[2] = "<=" -> ordered(~py_lt(value, row_value))
              [] cond[2] = "!=" -> IF py_eq(row_value, value) THEN Fail ELSE Pass
              [] OTHER -> Pass

\* Mutant of condition_result: a key the row lacks is read as None.
condition_result_get(data, cond) ==
    LET row_value == dict_get(data, cond[1])
        value == cond[3]
        ordered(holds) ==
            IF ~py_orderable(row_value, value)
            THEN [pass |-> FALSE, err |-> TypeError("not supported between instances")]
            ELSE IF holds THEN Pass ELSE Fail
    IN CASE cond[2] = "=" -> IF py_eq(row_value, value) THEN Pass ELSE Fail
         [] cond[2] = ">" -> ordered(py_lt(value, row_value))
         [] cond[2] = "<" -> ordered(py_lt(row_value, value))
         [] cond[2] = ">=" -> ordered(~py_lt(row_value, value))
         [] cond[2] = "<=" -> ordered(~py_lt(value, row_value))
         [] cond[2] = "!=" -> IF py_eq(row_value, value) THEN Fail ELSE Pass
         [] OTHER -> Pass

condition_result(data, cond) ==
    IF cond[1] \notin DOMAIN data THEN [pass |-> FALSE, err |-> KeyError(cond[1])]
    ELSE LET row_value == data[cond[1]]
             value == cond[3]
             ordered(holds) ==
                 IF ~py_orderable(row_value, value)
                 THEN [pass |-> FALSE, err |-> TypeError("not supported between instances")]
                 ELSE IF holds THEN Pass ELSE Fail
         IN CASE cond[2] = "=" -> IF py_eq(row_value, value) THEN Pass ELSE Fail
              [] cond[2] = ">" -> ordered(py_lt(value, row_value))
              [] cond[2] = "<" -> ordered(py_lt(row_value, value))
              [] cond[2] = ">=" -> ordered(~py_lt(row_value, value))
              [] cond[2] = "<=" -> ordered(~py_lt(value, row_value))
              [] cond[2] = "!=" -> IF py_eq(row_value, value) THEN Fail ELSE Pass
              [] OTHER -> Pass

\* The outcome of each condition of the query for the row, in order.
condition_results(q, data) ==
    [i \in 1..Len(q.filter_conditions) |-> condition_result(data, q.filter_conditions[i])]

\* Mutant of first_stop: a row matches when it passes some condition.
some_pass(res) ==
    IF {i \in DOMAIN res : res[i].err # NoErr} # {}
    THEN res[SetMin({i \in DOMAIN res : res[i].err # NoErr})]
    ELSE IF res = <<>> \/ \E i \in DOMAIN res : res[i].pass THEN Pass ELSE Fail

\* The loop of _matches over the outcomes: the first condition the row does
\* not pass returns False or raises; True when the row passes them all.
first_stop(res) ==
    IF \A i \in DOMAIN res : res[i].pass THEN Pass
    ELSE res[SetMin({i \in DOMAIN res : ~res[i].pass})]

\* Mutant of matches: a row matches when it passes some condition.
matches_some(q, data) == some_pass(condition_results(q, data))

\* _matches.
matches(q, data) == first_stop(condition_results(q, data))

\* key_func(a) < key_func(b) for the keys (v is None, v): False sorts before
\* True, and two values that are not None are compared.
key_lt(a, b) ==
    \/ a # None /\ b = None
    \/ a # None /\ b # None /\ py_lt(a, b)

\* Mutant of sorted_rows: reverse is done by sorting ascending and then
\* reversing the list, which turns the rows with equal keys around.
sorted_rows_reversed_after(h, rows, column, reverse) ==
    LET n == Len(rows)
        key(i) == h[rows[i]].data[column]
        before(i, j) ==
            \/ IF reverse THEN key_lt(key(j), key(i)) ELSE key_lt(key(i), key(j))
            \/ /\ ~key_lt(key(i), key(j)) /\ ~key_lt(key(j), key(i))
               /\ IF reverse THEN j < i ELSE i < j
        place(i) == Cardinality({j \in 1..n : before(j, i)}) + 1
    IN [p \in 1..n |-> rows[CHOOSE i \in 1..n : place(i) = p]]

\* list.sort(key=..., reverse=...) on rows whose keys can be compared: a stable
\* sort, and reverse keeps the rows with equal keys in their order.
sorted_rows(h, rows, column, reverse) ==
    LET n == Len(rows)
        key(i) == h[rows[i]].data[column]
        before(i, j) ==
            \/ IF reverse THEN key_lt(key(j), key(i)) ELSE key_lt(key(i), key(j))
            \/ ~key_lt(key(i), key(j)) /\ ~key_lt(key(j), key(i)) /\ i < j
        place(i) == Cardinality({j \in 1..n : before(j, i)}) + 1
    IN [p \in 1..n |-> rows[CHOOSE i \in 1..n : place(i) = p]]

\* The rows of the source that match, in the order of the source; res holds
\* the results of _matches for the rows.
kept_rows(rows, res) ==
    LET keep == SortedSeq({i \in DOMAIN res : res[i].pass})
    IN [p \in 1..Len(keep) |-> rows[keep[p]]]

\* The second half of _filtered_rows: the sort of the rows that matched.
\* key_func raises KeyError for a row without the column; comparing two keys
\* raises TypeError when neither value is None and they cannot be ordered.
sort_filtered(h, q, filtered) ==
    IF q.sort_column = None THEN [rows |-> filtered, err |-> NoErr]
    ELSE IF \E p \in DOMAIN filtered : q.sort_column.v \notin DOMAIN h[filtered[p]].data
    THEN [rows |-> <<>>, err |-> KeyError(q.sort_column.v)]
    ELSE IF \E i, j \in DOMAIN filtered :
               /\ h[filtered[i]].data[q.sort_column.v] # None
               /\ h[filtered[j]].data[q.sort_column.v] # None
               /\ ~py_orderable(h[filtered[i]].data[q.sort_column.v],
                                h[filtered[j]].data[q.sort_column.v])
    THEN [rows |-> <<>>, err |-> TypeError("not supported between instances")]
    ELSE [rows |-> sorted_rows(h, filtered, q.sort_column.v, ~q.sort_ascending),
          err |-> NoErr]

\* The first half of _filtered_rows: the first row for which _matches raises
\* ends the call; else the rows that matched go on to the sort.
filter_source(h, q, rows, res) ==
    IF \E i \in DOMAIN res : res[i].err # NoErr
    THEN [rows |-> <<>>, err |-> res[SetMin({i \in DOMAIN res : res[i].err # NoErr})].err]
    ELSE sort_filtered(h, q, kept_rows(rows, res))

\* What _filtered_rows leaves behind: the list of rows, or the exception raised.
\* tbl is the Table the query iterates.
filtered_rows(h, tbl, q) ==
    filter_source(h, q, tbl.rows, [i \in 1..Len(tbl.rows) |-> matches(q, h[tbl.rows[i]].data)])

\* Mutant of projected: the filtered rows themselves are returned.
projected_shared(h, tbl, columns, rows) == Returns(h, tbl, ListV(rows))

\* The new Rows execute makes of the filtered rows when columns are selected:
\* each holds the selected columns its row has, and has no id.
RECURSIVE projected(_, _, _, _)
projected(h, tbl, columns, rows) ==
    IF rows = <<>> THEN Returns(h, tbl, ListV(<<>>))
    ELSE LET before == projected(h, tbl, columns, SubSeq(rows, 1, Len(rows) - 1))
             data == h[rows[Len(rows)]].data
             new_row_data == [col \in Range(columns) \cap DOMAIN data |-> data[col]]
             a == NewAddr(before.heap)
         IN Returns((a :> Row(new_row_data)) @@ before.heap, tbl,
                    ListV(Append(before.ret.v, a)))

\* Mutant of execute_of: the list of the Table is sorted and cut down in place
\* and returned.
execute_in_place(h, tbl, q, f) ==
    IF f.err # NoErr THEN Raises(h, tbl, f.err)
    ELSE Returns(h, [tbl EXCEPT !.rows = f.rows], ListV(f.rows))

\* Mutant of execute_of: a select of no column projects as well.
execute_of_any_select(h, tbl, q, f) ==
    IF f.err # NoErr THEN Raises(h, tbl, f.err)
    ELSE IF q.selected_columns # None
    THEN projected(h, tbl, q.selected_columns.v, f.rows)
    ELSE Returns(h, tbl, ListV(f.rows))

\* The second half of execute, f being what _filtered_rows left behind.
execute_of(h, tbl, q, f) ==
    IF f.err # NoErr THEN Raises(h, tbl, f.err)
    ELSE IF q.selected_columns # None /\ q.selected_columns.v # <<>>
    THEN projected(h, tbl, q.selected_columns.v, f.rows)
    ELSE Returns(h, tbl, ListV(f.rows))

\* execute: the filtered rows themselves, or new Rows when selected_columns is
\* a list that is not empty.
execute(h, tbl, q) == execute_of(h, tbl, q, filtered_rows(h, tbl, q))

\* A float: the double nearest to num / den, the fraction in lowest terms.
RECURSIVE gcd(_, _)
gcd(a, b) == IF b = 0 THEN a ELSE gcd(b, a % b)
FloatV(num, den) ==
    LET g == gcd(IF num < 0 THEN -num ELSE num, den)
    IN [tag |-> "float", v |-> <<num \div g, den \div g>>]

\* The values at column of the rows, None left out, in the order of the rows.
RECURSIVE values_at(_, _, _)
values_at(h, rows, column) ==
    IF rows = <<>> THEN <<>>
    ELSE IF h[rows[Len(rows)]].data[column] # None
    THEN Append(values_at(h, SubSeq(rows, 1, Len(rows) - 1), column),
                h[rows[Len(rows)]].data[column])
    ELSE values_at(h, SubSeq(rows, 1, Len(rows) - 1), column)

RECURSIVE total_of(_)
total_of(values) ==
    IF values = <<>> THEN 0
    ELSE total_of(SubSeq(values, 1, Len(values) - 1)) + Num(values[Len(values)])

\* Mutant of count_of: the rows of the source are counted.
count_source(h, tbl, f) ==
    IF f.err # NoErr THEN Raises(h, tbl, f.err)
    ELSE Returns(h, tbl, IntV(Len(tbl.rows)))

\* len(...) of what _filtered_rows left behind.
count_of(h, tbl, f) ==
    IF f.err # NoErr THEN Raises(h, tbl, f.err)
    ELSE Returns(h, tbl, IntV(Len(f.rows)))

\* count: len(self._filtered_rows()).
count(h, tbl, q) == count_of(h, tbl, filtered_rows(h, tbl, q))

\* The loop of sum and of avg over the filtered rows: reading a row that lacks
\* the column raises KeyError; else the values that are not None.
column_values(h, column, f) ==
    IF f.err # NoErr THEN [values |-> <<>>, err |-> f.err]
    ELSE IF \E p \in DOMAIN f.rows : column \notin DOMAIN h[f.rows[p]].data
    THEN [values |-> <<>>, err |-> KeyError(column)]
    ELSE [values |-> values_at(h, f.rows, column), err |-> NoErr]

\* Mutant of sum_of: a null among the values is added too, which raises.
sum_nulls_raise(h, tbl, f, c) ==
    IF c.err # NoErr THEN Raises(h, tbl, c.err)
    ELSE IF Len(c.values) # Len(f.rows) \/ \E v \in Range(c.values) : ~isinstance_int(v)
    THEN Raises(h, tbl, TypeError("unsupported operand type(s) for +="))
    ELSE Returns(h, tbl, IntV(total_of(c.values)))

\* total += value for the values: adding a value that is not a number raises TypeError.
sum_of(h, tbl, f, c) ==
    IF c.err # NoErr THEN Raises(h, tbl, c.err)
    ELSE IF \E v \in Range(c.values) : ~isinstance_int(v)
    THEN Raises(h, tbl, TypeError("unsupported operand type(s) for +="))
    ELSE Returns(h, tbl, IntV(total_of(c.values)))

\* sum: the values that are not None are added to 0.
sum_rows(h, tbl, column, f) == sum_of(h, tbl, f, column_values(h, column, f))
sum(h, tbl, q, column) == sum_rows(h, tbl, column, filtered_rows(h, tbl, q))

\* Mutant of avg_of: the total is divided by the number of filtered rows.
avg_over_rows(h, tbl, f, c) ==
    IF c.err # NoErr THEN Raises(h, tbl, c.err)
    ELSE IF c.values = <<>> THEN Returns(h, tbl, FloatV(0, 1))
    ELSE IF \E v \in Range(c.values) : ~isinstance_int(v)
    THEN Raises(h, tbl, TypeError("unsupported operand type(s) for +"))
    ELSE Returns(h, tbl, FloatV(total_of(c.values), Len(f.rows)))

\* 0.0 when no value was collected, else sum(values) / len(values).
avg_of(h, tbl, f, c) ==
    IF c.err # NoErr THEN Raises(h, tbl, c.err)
    ELSE IF c.values = <<>> THEN Returns(h, tbl, FloatV(0, 1))
    ELSE IF \E v \in Range(c.values) : ~isinstance_int(v)
    THEN Raises(h, tbl, TypeError("unsupported operand type(s) for +"))
    ELSE Returns(h, tbl, FloatV(total_of(c.values), Len(c.values)))

\* avg: the values that are not None are collected and averaged.
avg_rows(h, tbl, column, f) == avg_of(h, tbl, f, column_values(h, column, f))
avg(h, tbl, q, column) == avg_rows(h, tbl, column, filtered_rows(h, tbl, q))

(***************************************************************************)
(* The calls a client makes on a SimpleQuery.                              *)
(***************************************************************************)
MaxClauses == 2   \* where clauses on one query

QueryRef == [tag |-> "SimpleQueryRef", v |-> 1]

Builder(q, op, data) ==
    /\ query' = q
    /\ last' = [op |-> op, table |-> q.v.table, row_id |-> 0, data |-> data,
                ret |-> QueryRef, err |-> NoErr]
    /\ heap' = Collect(heap, tables, last')
    /\ UNCHANGED <<tables, assigned, deleted, held, instance>>

\* Mutant of NewQuery: the query is built on a copy of the Table made at construction.
NewQuery_snapshot(t) ==
    /\ query' = SimpleQuery("snapshot")
    /\ tables' = ("snapshot" :> tables[t]) @@ tables
    /\ last' = [op |-> "SimpleQuery", table |-> t, row_id |-> 0, data |-> EmptyDict,
                ret |-> QueryRef, err |-> NoErr]
    /\ heap' = Collect(heap, tables', last')
    /\ assigned' = ("snapshot" :> <<>>) @@ assigned
    /\ deleted' = ("snapshot" :> {}) @@ deleted
    /\ UNCHANGED <<held, instance>>

NewQuery(t) == Builder(SimpleQuery(t), "SimpleQuery", EmptyDict)

Where(column, operator, value) ==
    /\ query # None
    /\ Len(query.v.filter_conditions) < MaxClauses
    /\ Builder([query EXCEPT !.v.filter_conditions = Append(@, <<column, operator, value>>)],
               "where",
               ("column" :> StrV(column)) @@ ("operator" :> StrV(operator)) @@ ("value" :> value))

OrderBy(column, ascending) ==
    /\ query # None
    /\ Builder([query EXCEPT !.v.sort_column = StrV(column), !.v.sort_ascending = ascending],
               "order_by", ("column" :> StrV(column)) @@ ("ascending" :> BoolV(ascending)))

Select(columns) ==
    /\ query # None
    /\ Builder([query EXCEPT !.v.selected_columns = ListV(columns)],
               "select", ("columns" :> ListV(columns)))

Execute ==
    /\ query # None
    /\ \E r \in {execute(heap, tables[query.v.table], query.v)} :
          /\ Done(query.v.table, r, Call("execute", query.v.table, 0, EmptyDict, r))
          /\ UNCHANGED <<assigned, deleted>>

Count ==
    /\ query # None
    /\ \E r \in {count(heap, tables[query.v.table], query.v)} :
          /\ Done(query.v.table, r, Call("count", query.v.table, 0, EmptyDict, r))
          /\ UNCHANGED <<assigned, deleted>>

Sum(column) ==
    /\ query # None
    /\ \E r \in {sum(heap, tables[query.v.table], query.v, column)} :
          /\ Done(query.v.table, r,
                  Call("sum", query.v.table, 0, ("column" :> StrV(column)), r))
          /\ UNCHANGED <<assigned, deleted>>

Avg(column) ==
    /\ query # None
    /\ \E r \in {avg(heap, tables[query.v.table], query.v, column)} :
          /\ Done(query.v.table, r,
                  Call("avg", query.v.table, 0, ("column" :> StrV(column)), r))
          /\ UNCHANGED <<assigned, deleted>>

QueryColumns ==
    << Column("id", IntegerType, FALSE, TRUE, NoForeignKey),
       Column("value", IntegerType, TRUE, FALSE, NoForeignKey) >>
NumberRow(id, value) == ("id" :> IntV(id)) @@ ("value" :> value)
\* The rows a query runs over: the values 10, 20, 30; equal values and a null;
\* a row stored without the key of its nullable column.
QuerySources ==
    { << NumberRow(1, IntV(10)), NumberRow(2, IntV(20)), NumberRow(3, IntV(30)) >>,
      << NumberRow(1, IntV(20)), NumberRow(2, None), NumberRow(3, IntV(10)),
         NumberRow(4, None), NumberRow(5, IntV(20)) >>,
      << NumberRow(1, IntV(10)), ("id" :> IntV(2)) >> }
WhereInputs ==
    { <<"value", ">", IntV(10)>>, <<"value", "<", IntV(30)>>, <<"value", ">=", IntV(20)>>,
      <<"value", "<=", IntV(20)>>, <<"value", "=", IntV(20)>>, <<"value", "!=", IntV(20)>>,
      <<"value", "~", IntV(20)>>, <<"id", ">", BoolV(TRUE)>>, <<"id", "<", IntV(2)>> }
OrderInputs == { <<"value", TRUE>>, <<"value", FALSE>> }
SelectInputs == { <<>>, <<"value">>, <<"value", "ghost">> }
AggregateInputs == {"value"}

QueryInit ==
    /\ \E src \in QuerySources :
          \E p \in {Populated(Table("numbers", QueryColumns), src)} :
              /\ tables = ("numbers" :> p.table)
              /\ heap = p.heap
              /\ assigned = ("numbers" :> [i \in 1..Len(src) |-> i])
    /\ last = Call("", "", 0, EmptyDict, Returns(heap, <<>>, None))
    /\ deleted = [t \in DOMAIN tables |-> {}]
    /\ held = None
    /\ instance = None
    /\ query = None

QueryNext ==
    \/ \E t \in DOMAIN tables : NewQuery(t)
    \/ \E c \in WhereInputs : Where(c[1], c[2], c[3])
    \/ \E o \in OrderInputs : OrderBy(o[1], o[2])
    \/ \E columns \in SelectInputs : Select(columns)
    \/ Execute
    \/ Count
    \/ \E column \in AggregateInputs : Sum(column)
    \/ \E column \in AggregateInputs : Avg(column)

SpecQuery == QueryInit /\ [][QueryNext]_vars

(***************************************************************************)
(* One SimpleQuery on a Table whose rows change between its calls, and the  *)
(* client's writes to the rows a call returned.                            *)
(***************************************************************************)
\* results = q.execute(): the client keeps the list just returned.
KeepResult ==
    /\ last.op = "execute" /\ last.err = NoErr
    /\ held' = last.ret
    /\ UNCHANGED <<heap, tables, last, assigned, deleted, instance, query>>

LiveWhere == { <<"value", ">", IntV(10)>> }
LiveSelect == { <<"value", "ghost">> }

LiveInit ==
    /\ \E p \in {Populated(Table("numbers", QueryColumns),
                           << NumberRow(1, IntV(10)), NumberRow(2, IntV(20)) >>)} :
          /\ tables = ("numbers" :> p.table)
          /\ heap = p.heap
    /\ assigned = ("numbers" :> <<1, 2>>)
    /\ last = Call("", "", 0, EmptyDict, Returns(heap, <<>>, None))
    /\ deleted = ("numbers" :> {})
    /\ held = None
    /\ instance = None
    /\ query = None

\* The client builds one query, adds at most one condition to it, changes the
\* Table only once the query exists, and keeps one result of a select.
LiveNext ==
    \/ query = None /\ NewQuery("numbers")
    \/ \E c \in LiveWhere :
          /\ query # None /\ query.v.filter_conditions = <<>>
          /\ Where(c[1], c[2], c[3])
    \/ \E columns \in LiveSelect :
          /\ query # None /\ query.v.selected_columns = None
          /\ Select(columns)
    \/ Execute
    \/ Count
    \/ Sum("value")
    \/ Avg("value")
    \/ query # None /\ Insert("numbers", NumberRow(3, IntV(30)))
    \/ query # None /\ Update("numbers", 1, ("value" :> IntV(5)))
    \/ query # None /\ Delete("numbers", 2)
    \/ held = None /\ query # None /\ query.v.selected_columns # None /\ KeepResult
    \/ RowSetItem(1, "value", IntV(99))

SpecLive == LiveInit /\ [][LiveNext]_vars

(***************************************************************************)
(* JoinedTable.                                                            *)
(***************************************************************************)
\* The items of a row under the name of its Table: f"{name}.{k}" for each key k.
prefixed(name, data) ==
    [key \in {name \o "." \o k : k \in DOMAIN data} |->
        data[CHOOSE k \in DOMAIN data : name \o "." \o k = key]]

\* The data of the row made of a pair: the left items are written first, then
\* the right items, so a right item replaces a left item of the same key.
joined_data(left, right, l, r) == Merged(prefixed(left.name, l), prefixed(right.name, r))

\* The n-th pair of the nested loops, the left rows being the outer loop.
left_row(left, right, n) == left.rows[((n - 1) \div Len(right.rows)) + 1]
right_row(left, right, n) == right.rows[((n - 1) % Len(right.rows)) + 1]

\* Mutant of join_pair: a null matches nothing, as in an SQL inner join.
join_pair_sql(before, left, right, left_column, right_column, n) ==
    IF before.err # NoErr THEN before
    ELSE IF left_column \notin DOMAIN before.heap[left_row(left, right, n)].data
    THEN [before EXCEPT !.err = KeyError(left_column)]
    ELSE IF right_column \notin DOMAIN before.heap[right_row(left, right, n)].data
    THEN [before EXCEPT !.err = KeyError(right_column)]
    ELSE IF \/ before.heap[left_row(left, right, n)].data[left_column] = None
            \/ ~py_eq(before.heap[left_row(left, right, n)].data[left_column],
                      before.heap[right_row(left, right, n)].data[right_column])
    THEN before
    ELSE [heap |-> (NewAddr(before.heap) :>
                       Row(joined_data(left, right,
                                       before.heap[left_row(left, right, n)].data,
                                       before.heap[right_row(left, right, n)].data)))
                   @@ before.heap,
          rows |-> Append(before.rows, NewAddr(before.heap)),
          err |-> NoErr]

\* Mutant of join_pair: the row of a matching pair is the right Row itself.
join_pair_shared(before, left, right, left_column, right_column, n) ==
    IF before.err # NoErr THEN before
    ELSE IF left_column \notin DOMAIN before.heap[left_row(left, right, n)].data
    THEN [before EXCEPT !.err = KeyError(left_column)]
    ELSE IF right_column \notin DOMAIN before.heap[right_row(left, right, n)].data
    THEN [before EXCEPT !.err = KeyError(right_column)]
    ELSE IF ~py_eq(before.heap[left_row(left, right, n)].data[left_column],
                   before.heap[right_row(left, right, n)].data[right_column])
    THEN before
    ELSE [before EXCEPT !.rows = Append(@, right_row(left, right, n))]

\* One turn of the inner loop of _build_rows: l[left_column] and
\* r[right_column] are read (KeyError when the row has no such key) and
\* compared with ==; a new Row is appended for a pair that matches.
join_pair(before, left, right, left_column, right_column, n) ==
    IF before.err # NoErr THEN before
    ELSE IF left_column \notin DOMAIN before.heap[left_row(left, right, n)].data
    THEN [before EXCEPT !.err = KeyError(left_column)]
    ELSE IF right_column \notin DOMAIN before.heap[right_row(left, right, n)].data
    THEN [before EXCEPT !.err = KeyError(right_column)]
    ELSE IF ~py_eq(before.heap[left_row(left, right, n)].data[left_column],
                   before.heap[right_row(left, right, n)].data[right_column])
    THEN before
    ELSE [heap |-> (NewAddr(before.heap) :>
                       Row(joined_data(left, right,
                                       before.heap[left_row(left, right, n)].data,
                                       before.heap[right_row(left, right, n)].data)))
                   @@ before.heap,
          rows |-> Append(before.rows, NewAddr(before.heap)),
          err |-> NoErr]

\* _build_rows after the first n pairs: the heap, self.rows, and the error raised.
RECURSIVE build_rows(_, _, _, _, _, _)
build_rows(h, left, right, left_column, right_column, n) ==
    IF n = 0 THEN [heap |-> h, rows |-> <<>>, err |-> NoErr]
    ELSE join_pair(build_rows(h, left, right, left_column, right_column, n - 1),
                   left, right, left_column, right_column, n)

\* JoinedTable(left, right, left_column, right_column): the fields of the new
\* object, left and right being the keys of the Tables it refers to.
JoinedTable(left, right, left_column, right_column, name, rows) ==
    [tag |-> "JoinedTable",
     v |-> [left |-> left, right |-> right,
            left_column |-> left_column, right_column |-> right_column,
            name |-> IF name = "" THEN tables[left].name \o "_join_" \o tables[right].name
                     ELSE name,
            rows |-> rows]]
JoinedRef == [tag |-> "JoinedTableRef", v |-> 1]

\* joined = JoinedTable(left, right, left_column, right_column): the client
\* keeps the view in place of what it held; nothing is built when a read raises.
Join(left, right, left_column, right_column) ==
    \E b \in {build_rows(heap, tables[left], tables[right], left_column, right_column,
                         Len(tables[left].rows) * Len(tables[right].rows))} :
        /\ last' = [op |-> "JoinedTable", table |-> left, row_id |-> 0,
                    data |-> ("right" :> StrV(right)) @@ ("left_column" :> StrV(left_column))
                                @@ ("right_column" :> StrV(right_column)),
                    ret |-> IF b.err = NoErr THEN JoinedRef ELSE None, err |-> b.err]
        /\ held' = IF b.err = NoErr
                   THEN JoinedTable(left, right, left_column, right_column, "", b.rows)
                   ELSE held
        /\ heap' = [a \in DOMAIN b.heap \cap (Referenced(tables, last') \cup
                                               (IF b.err = NoErr THEN Range(b.rows) ELSE HeldRows))
                       |-> b.heap[a]]
        /\ UNCHANGED <<tables, assigned, deleted, instance, query>>

\* users whose boss is a user, and orders that name their user.
StaffColumns ==
    << Column("id", IntegerType, FALSE, TRUE, NoForeignKey),
       Column("boss", IntegerType, TRUE, FALSE, NoForeignKey) >>
OrderColumns ==
    << Column("id", IntegerType, FALSE, TRUE, NoForeignKey),
       Column("user_id", IntegerType, TRUE, FALSE, NoForeignKey) >>
StaffRow(id, boss) == ("id" :> IntV(id)) @@ ("boss" :> boss)
OrderRow(id, user_id) == ("id" :> IntV(id)) @@ ("user_id" :> user_id)

\* The joins tried: users with their orders, users with their bosses (a Table
\* joined with itself), a join on two nullable columns, a join nothing matches.
JoinInputs ==
    { <<"users", "orders", "id", "user_id">>,
      <<"users", "users", "id", "boss">>,
      <<"users", "orders", "boss", "user_id">>,
      <<"orders", "users", "id", "id">> }

\* users with ids 1, 2 and orders with user_id 1, 1, 2.
JoinInit ==
    /\ \E u \in {Populated(Table("users", StaffColumns),
                           << StaffRow(1, None), StaffRow(2, IntV(1)) >>)} :
       \E o1 \in {Table_insert(u.heap, Table("orders", OrderColumns), OrderRow(100, IntV(1)))} :
       \E o2 \in {Table_insert(o1.heap, o1.table, OrderRow(101, IntV(1)))} :
       \E o \in {Table_insert(o2.heap, o2.table, OrderRow(102, IntV(2)))} :
          /\ tables = ("users" :> u.table) @@ ("orders" :> o.table)
          /\ heap = o.heap
    /\ assigned = ("users" :> <<1, 2>>) @@ ("orders" :> <<1, 2, 3>>)
    /\ last = Call("", "", 0, EmptyDict, Returns(heap, <<>>, None))
    /\ deleted = ("users" :> {}) @@ ("orders" :> {})
    /\ held = None
    /\ instance = None
    /\ query = None

JoinNext ==
    \/ \E j \in JoinInputs : Join(j[1], j[2], j[3], j[4])
    \/ tables["users"].next_id = 3 /\ Insert("users", ("id" :> IntV(3)))
    \/ Update("orders", 1, ("user_id" :> None))
    \/ Delete("users", 2)

SpecJoin == JoinInit /\ [][JoinNext]_vars

(***************************************************************************)
(* Table.insert called by two threads.  No lock is taken: a thread can be  *)
(* switched between any two statements of insert, and between the read and *)
(* the write of next_id += 1.                                              *)
(***************************************************************************)
Callers == {1, 2}
\* The frame of a caller: where it is in insert, its row_data, the address of
\* its row (0 before Row(row_data)), the value it loaded for next_id += 1, and
\* history: whether it read next_id while another caller was between its own
\* read of next_id and its write.
Frame(pc, row_data, row, loaded, raced) ==
    [pc |-> pc, row_data |-> row_data, row |-> row, loaded |-> loaded, raced |-> raced]
Frames(f) == [tag |-> "frames", v |-> f]
InWindow(c) == held.v[c].pc \in {"load", "store"}

\* Mutant of InsertReadId: the id is read and next_id advanced in one step.
InsertReadId_locked(c, t) ==
    /\ held.v[c].pc = "read_id"
    /\ heap' = [heap EXCEPT ![held.v[c].row].id = IntV(tables[t].next_id)]
    /\ tables' = [tables EXCEPT ![t].next_id = @ + 1]
    /\ held' = Frames([held.v EXCEPT ![c].pc = "load",
                                     ![c].raced = \E d \in Callers \ {c} : InWindow(d)])
    /\ UNCHANGED <<last, assigned, deleted, instance, query>>

\* self._validate_row_data(row_data); row = Row(row_data)
InsertCall(c, t, row_data) ==
    /\ held.v[c].pc = "idle"
    /\ \E bad \in {validate_row_data(tables[t], row_data)} :
          IF bad # 0
          THEN /\ last' = Call("insert", t, 0, row_data,
                               Raises(heap, tables[t],
                                      ValueError("Invalid value for column",
                                                 tables[t].columns[bad].name)))
               /\ held' = Frames([held.v EXCEPT ![c].pc = "done", ![c].row_data = row_data])
               /\ heap' = Collect(heap, tables, last')
          ELSE /\ heap' = (NewAddr(heap) :> Row(row_data)) @@ heap
               /\ held' = Frames([held.v EXCEPT ![c].pc = "read_id", ![c].row_data = row_data,
                                                ![c].row = NewAddr(heap)])
               /\ last' = last
    /\ UNCHANGED <<tables, assigned, deleted, instance, query>>

\* row.id = self.next_id
InsertReadId(c, t) ==
    /\ held.v[c].pc = "read_id"
    /\ heap' = [heap EXCEPT ![held.v[c].row].id = IntV(tables[t].next_id)]
    /\ held' = Frames([held.v EXCEPT ![c].pc = "load",
                                     ![c].raced = \E d \in Callers \ {c} : InWindow(d)])
    /\ UNCHANGED <<tables, last, assigned, deleted, instance, query>>

\* self.next_id += 1, first half: the value of self.next_id is loaded.
InsertLoad(c, t) ==
    /\ held.v[c].pc = "load"
    /\ held' = Frames([held.v EXCEPT ![c].pc = "store", ![c].loaded = tables[t].next_id])
    /\ UNCHANGED <<heap, tables, last, assigned, deleted, instance, query>>

\* self.next_id += 1, second half: the loaded value plus one is stored.
InsertStore(c, t) ==
    /\ held.v[c].pc = "store"
    /\ tables' = [tables EXCEPT ![t].next_id = held.v[c].loaded + 1]
    /\ held' = Frames([held.v EXCEPT ![c].pc = "append"])
    /\ UNCHANGED <<heap, last, assigned, deleted, instance, query>>

\* self.rows.append(row); return row
InsertAppend(c, t) ==
    /\ held.v[c].pc = "append"
    /\ tables' = [tables EXCEPT ![t].rows = Append(@, held.v[c].row)]
    /\ last' = [op |-> "insert", table |-> t, row_id |-> 0, data |-> held.v[c].row_data,
                ret |-> RowRef(held.v[c].row), err |-> NoErr]
    /\ assigned' = [assigned EXCEPT ![t] = Append(@, heap[held.v[c].row].id.v)]
    /\ held' = Frames([held.v EXCEPT ![c].pc = "done"])
    /\ UNCHANGED <<heap, deleted, instance, query>>

\* Accepted rows, and one without its non-nullable column.
RaceInserts == { NumberRow(7, IntV(10)), NumberRow(8, None), ("value" :> IntV(10)) }

\* A Table that is empty or holds one row, and two callers about to insert.
RaceInit ==
    /\ \E src \in { <<>>, << NumberRow(6, IntV(30)) >> } :
          \E p \in {Populated(Table("numbers", QueryColumns), src)} :
              /\ tables = ("numbers" :> p.table)
              /\ heap = p.heap
              /\ assigned = ("numbers" :> [i \in 1..Len(src) |-> i])
    /\ last = Call("", "", 0, EmptyDict, Returns(heap, <<>>, None))
    /\ deleted = ("numbers" :> {})
    /\ held = Frames([c \in Callers |-> Frame("idle", EmptyDict, 0, 0, FALSE)])
    /\ instance = None
    /\ query = None

RaceNext ==
    \E c \in Callers :
        \/ \E row_data \in RaceInserts : InsertCall(c, "numbers", row_data)
        \/ InsertReadId(c, "numbers")
        \/ InsertLoad(c, "numbers")
        \/ InsertStore(c, "numbers")
        \/ InsertAppend(c, "numbers")

SpecRace == RaceInit /\ [][RaceNext]_vars

(***************************************************************************)
(* Properties of SimpleQuery.                                              *)
(***************************************************************************)
Operators == {"=", ">", "<", ">=", "<=", "!="}
\* The row has a value at the clause's column and the value stands in the
\* clause's relation to the clause's value (numbers are compared by value;
\* a null is in no order relation).
C20_Holds(data, cond) ==
    /\ cond[1] \in DOMAIN data
    /\ LET rv == data[cond[1]]
           cv == cond[3]
           numbers == rv.tag \in {"int", "bool"} /\ cv.tag \in {"int", "bool"}
           same == IF numbers THEN Num(rv) = Num(cv) ELSE rv = cv
       IN CASE cond[2] = "=" -> same
            [] cond[2] = "!=" -> ~same
            [] cond[2] = ">" -> numbers /\ Num(rv) > Num(cv)
            [] cond[2] = "<" -> numbers /\ Num(rv) < Num(cv)
            [] cond[2] = ">=" -> numbers /\ Num(rv) >= Num(cv)
            [] cond[2] = "<=" -> numbers /\ Num(rv) <= Num(cv)
C20_Passes(a) == \A cond \in Range(query.v.filter_conditions) : C20_Holds(heap[a].data, cond)

\* C20: when execute returns, with clauses of the six operators, its result is
\* made of exactly the source rows that satisfy every clause: those rows
\* themselves, in source order when no sort is set, and one result row for
\* each of them when columns are selected; with no clause they are all the rows.
C20_ConjunctiveFilter ==
    (/\ last.op = "execute"
     /\ last.err = NoErr
     /\ \A cond \in Range(query.v.filter_conditions) : cond[2] \in Operators) =>
        LET passing == SelectSeq(tables[query.v.table].rows, C20_Passes)
            selected == /\ query.v.selected_columns # None
                        /\ query.v.selected_columns.v # <<>>
        IN /\ Len(last.ret.v) = Len(passing)
           /\ ~selected => Range(last.ret.v) = Range(passing)
           /\ (~selected /\ query.v.sort_column = None) => last.ret.v = passing
           /\ query.v.filter_conditions = <<>> =>
                 Len(last.ret.v) = Len(tables[query.v.table].rows)

\* where(value > 10) and where(value <= 20) on the values 10, 20, 30: exactly the row with 20.
C20_Witness ==
    /\ last.op = "execute"
    /\ last.err = NoErr
    /\ query.v.filter_conditions = << <<"value", ">", IntV(10)>>, <<"value", "<=", IntV(20)>> >>
    /\ query.v.selected_columns = None
    /\ Len(tables["numbers"].rows) = 3
    /\ Len(last.ret.v) = 1
    /\ heap[last.ret.v[1]].data["value"] = IntV(20)

\* The source of the query and what its rows hold.
Source == tables[query.v.table].rows
ValueAt(a, column) == heap[a].data[column]
Selected == query.v.selected_columns # None /\ query.v.selected_columns.v # <<>>
KnownOperators == \A cond \in Range(query.v.filter_conditions) : cond[2] \in Operators
\* A call of execute that returned the rows of the source, sorted.
SortedResult ==
    /\ last.op = "execute"
    /\ last.err = NoErr
    /\ query.v.sort_column # None
    /\ ~Selected
SortValue(p) == ValueAt(last.ret.v[p], query.v.sort_column.v)
\* The place of a row in the source.
SourceIndex(a) == CHOOSE i \in DOMAIN Source : Source[i] = a

\* C21: in a sorted result the rows with a null at the sort column come before
\* all rows with a value when the order is ascending, and after them when it
\* is descending.
C21_NullsSortFirst ==
    SortedResult =>
        \A i, j \in DOMAIN last.ret.v :
            (SortValue(i) = None /\ SortValue(j) # None) =>
                IF query.v.sort_ascending THEN i < j ELSE j < i

\* What the code does: a null sorts as greater than every value.
C21_NullsSortLast ==
    SortedResult =>
        \A i, j \in DOMAIN last.ret.v :
            (SortValue(i) = None /\ SortValue(j) # None) =>
                IF query.v.sort_ascending THEN j < i ELSE i < j

\* C22: the sort is stable in both directions: two rows of a sorted result
\* with equal values at the sort column, two nulls among them, are in the
\* order they have in the source.
C22_SortStable ==
    SortedResult =>
        \A i, j \in DOMAIN last.ret.v :
            (i < j /\ SortValue(i) = SortValue(j)) =>
                SourceIndex(last.ret.v[i]) < SourceIndex(last.ret.v[j])

\* Descending, with two rows of value 20 and two nulls in the source.
C22_Witness ==
    /\ SortedResult
    /\ ~query.v.sort_ascending
    /\ Len(last.ret.v) = 5
    /\ \E i, j \in DOMAIN last.ret.v : i < j /\ SortValue(i) = IntV(20) /\ SortValue(j) = IntV(20)
    /\ \E i, j \in DOMAIN last.ret.v : i < j /\ SortValue(i) = None /\ SortValue(j) = None

RECURSIVE C25_Total(_, _)
C25_Total(S, column) ==
    IF S = {} THEN 0
    ELSE LET a == CHOOSE x \in S : TRUE
         IN (IF ValueAt(a, column) = None THEN 0 ELSE Num(ValueAt(a, column)))
               + C25_Total(S \ {a}, column)
Passing == {a \in Range(Source) : C20_Passes(a)}
NonNull(column) == {a \in Passing : ValueAt(a, column) # None}

\* C25: sum returns the sum of the values at the column over the rows that
\* satisfy every clause and have a value there; a row with a null adds nothing
\* and raises nothing (sum raises only when count on the same builder does, or
\* a filtered row lacks the column), and the sum is 0 when no row contributes.
C25_SumSkipsNulls ==
    (last.op = "sum" /\ KnownOperators) =>
        /\ last.err = NoErr => last.ret = IntV(C25_Total(Passing, last.data["column"].v))
        /\ last.err # NoErr =>
              \/ count(heap, tables[query.v.table], query.v).err # NoErr
              \/ \E a \in Passing : last.data["column"].v \notin DOMAIN heap[a].data

C25_Witness ==
    /\ last.op = "sum"
    /\ last.ret = IntV(50)
    /\ query.v.filter_conditions = <<>>
    /\ Cardinality({a \in Range(Source) : ValueAt(a, "value") = None}) = 2

C27_QueryLeavesSource ==
    [][last'.op \in {"SimpleQuery", "select", "where", "order_by",
                     "execute", "count", "sum", "avg"}
          => \A t \in DOMAIN tables : TableState(t)' = TableState(t)]_vars

\* A sorted result whose order is not the order of the source.
C27_Witness ==
    /\ SortedResult
    /\ Len(last.ret.v) = Len(Source)
    /\ last.ret.v # Source

\* The rows of the Table of the live scenario, and those that satisfy every clause.
LiveRows == tables["numbers"].rows
LivePassing == SelectSeq(LiveRows, C20_Passes)
\* The row execute makes of source row a under a select: the selected columns a has.
C23_Projection(a) ==
    [k \in Range(query.v.selected_columns.v) \cap DOMAIN heap[a].data |-> heap[a].data[k]]
\* The result of an execute with a select: one row for each filtered row, in
\* order, holding the selected columns the filtered row has and nothing else.
C23_Projected ==
    /\ Len(last.ret.v) = Len(LivePassing)
    /\ \A p \in DOMAIN last.ret.v :
          /\ heap[last.ret.v[p]].data = C23_Projection(LivePassing[p])
          /\ heap[last.ret.v[p]].id = None

\* C23: when execute is called with a non-empty select, each row of the result
\* carries exactly the selected columns that its source row has (a selected
\* column the source row lacks is left out), the rows of the result are
\* objects that did not exist before the call, none of them a row of the
\* source, and a write to a field of a kept result row leaves the Table and
\* its rows as they were.
C23_SelectCopies ==
    [][/\ (last'.op = "execute" /\ last'.err = NoErr /\ Selected' /\ held' = held) =>
              /\ C23_Projected'
              /\ Range(last'.ret.v) \cap DOMAIN heap = {}
              /\ Range(last'.ret.v) \cap Range(LiveRows') = {}
       /\ (last'.op = "Row.__setitem__" /\ held.tag = "list") =>
              /\ heap'[held.v[1]].data["value"] = IntV(99)
              /\ TableState("numbers")' = TableState("numbers")]_vars

\* select("value", "ghost") kept, then results[0]["value"] = 99: the result
\* row holds 99 and has no "ghost", and no row of the Table holds 99.
C23_Witness ==
    /\ last.op = "Row.__setitem__"
    /\ held.tag = "list"
    /\ held.v[1] \notin Range(LiveRows)
    /\ DOMAIN heap[held.v[1]].data = {"value"}
    /\ heap[held.v[1]].data["value"] = IntV(99)
    /\ LiveRows # <<>>
    /\ \A a \in Range(LiveRows) : ValueAt(a, "value") # IntV(99)

\* C28: a SimpleQuery reads its Table when execute, count, sum or avg is
\* called, not when it is built: each call answers from the rows the Table
\* holds at the call, so inserts, updates and deletes made after the query was
\* built, or between two calls on it, show in the next call.
C28_ReadsAtCallTime ==
    last.err = NoErr =>
        /\ last.op = "execute" =>
              /\ Len(last.ret.v) = Len(LivePassing)
              /\ \A p \in DOMAIN last.ret.v :
                    IF Selected
                    THEN heap[last.ret.v[p]].data = C23_Projection(LivePassing[p])
                    ELSE last.ret.v[p] = LivePassing[p]
        /\ last.op = "count" => last.ret = IntV(Len(LivePassing))
        /\ last.op = "sum" => last.ret = IntV(C25_Total(Range(LivePassing), "value"))
        /\ last.op = "avg" =>
              /\ last.ret.tag = "float"
              /\ last.ret.v[2] > 0
              /\ IF LivePassing = <<>>
                 THEN last.ret.v = <<0, 1>>
                 ELSE last.ret.v[1] * Len(LivePassing)
                         = C25_Total(Range(LivePassing), "value") * last.ret.v[2]

\* The query had no clause when its kept result of two rows was made and has
\* none now; row 1 was updated and a row inserted since the query was built,
\* and execute returns three rows, the first with the updated value.
C28_Witness ==
    /\ last.op = "execute"
    /\ last.err = NoErr
    /\ query.v.filter_conditions = <<>>
    /\ held.tag = "list" /\ Len(held.v) = 2
    /\ StoredIds("numbers") = {1, 2, 3}
    /\ Len(last.ret.v) = 3
    /\ heap[last.ret.v[1]].data["value"] = IntV(5)

\* The view the client holds, the rows of its two Tables, and the pairs of
\* places <<i, j>> of a left and a right row whose join values are equal (the
\* values are integers or null here).
View == held.v
LeftRows == tables[View.left].rows
RightRows == tables[View.right].rows
LeftData(i) == heap[LeftRows[i]].data
RightData(j) == heap[RightRows[j]].data
C29_Matching ==
    {m \in (DOMAIN LeftRows) \X (DOMAIN RightRows) :
        /\ View.left_column \in DOMAIN LeftData(m[1])
        /\ View.right_column \in DOMAIN RightData(m[2])
        /\ LeftData(m[1])[View.left_column] = RightData(m[2])[View.right_column]}
\* The place of the row of pair m in the view: pairs are in the order of the
\* left rows, and for one left row in the order of the right rows.
C29_Place(m) ==
    Cardinality({n \in C29_Matching : n[1] < m[1] \/ (n[1] = m[1] /\ n[2] <= m[2])})
\* The row has the fields of l under the left name and those of r under the
\* right name, and no other field.
C29_Fields(out, l, r) ==
    /\ DOMAIN out = {tables[View.left].name \o "." \o k : k \in DOMAIN l}
                       \cup {tables[View.right].name \o "." \o k : k \in DOMAIN r}
    /\ \A k \in DOMAIN l : out[tables[View.left].name \o "." \o k] = l[k]
    /\ \A k \in DOMAIN r : out[tables[View.right].name \o "." \o k] = r[k]
C29_RowsOfPairs ==
    /\ Len(View.rows) = Cardinality(C29_Matching)
    /\ \A m \in C29_Matching :
          C29_Fields(heap[View.rows[C29_Place(m)]].data, LeftData(m[1]), RightData(m[2]))
C29_Built == last.op = "JoinedTable" /\ last.err = NoErr

\* C29: a view just built has one row for each pair of a left and a right row
\* with equal join values and no other row, in the order of the left rows and
\* then of the right rows; the row of a pair has the left row's fields under
\* "<left name>.<column>" and the right row's fields under
\* "<right name>.<column>"; with no such pair the view is empty.
C29_JoinRows == C29_Built => C29_RowsOfPairs

\* What the code does: the same, for two Tables of different names.
C29_JoinRowsOfTwoNames ==
    (C29_Built /\ tables[View.left].name # tables[View.right].name) => C29_RowsOfPairs

\* The count and the order of the rows are those of the matching pairs also
\* when a Table is joined with itself.
C29_JoinOrder ==
    C29_Built =>
        /\ Len(View.rows) = Cardinality(C29_Matching)
        /\ \A m \in C29_Matching :
              \A k \in DOMAIN RightData(m[2]) :
                  heap[View.rows[C29_Place(m)]].data[tables[View.right].name \o "." \o k]
                      = RightData(m[2])[k]

\* users with ids 1, 2 joined with orders of user_id 1, 1, 2: three rows.
C29_ThreeRows ==
    /\ C29_Built
    /\ View.left = "users" /\ View.right = "orders"
    /\ View.left_column = "id" /\ View.right_column = "user_id"
    /\ Len(LeftRows) = 2 /\ Len(RightRows) = 3
    /\ Len(View.rows) = 3
    /\ heap[View.rows[3]].data
          = ("users.id" :> IntV(2)) @@ ("users.boss" :> IntV(1))
               @@ ("orders.id" :> IntV(102)) @@ ("orders.user_id" :> IntV(2))
\* A join nothing matches: an empty view.
C29_EmptyView == C29_Built /\ View.left = "orders" /\ View.rows = <<>>
\* users joined with users on id = boss: the row of the pair (user 1, user 2)
\* has two fields, those of user 2.
C29_SelfJoin ==
    /\ C29_Built
    /\ View.left = "users" /\ View.right = "users"
    /\ Len(View.rows) = 1
    /\ heap[View.rows[1]].data = ("users.id" :> IntV(2)) @@ ("users.boss" :> IntV(1))

\* The rows of the view as the client reads them.
ViewRows == [p \in DOMAIN View.rows |-> heap[View.rows[p]]]

\* C30: the rows of a view and their fields stay as they were built whatever
\* insert, update or delete is made afterwards on either Table, and building
\* a view changes neither Table.
C30_ViewIsSnapshot ==
    [][/\ (held.tag = "JoinedTable" /\ last'.op \in {"insert", "update", "delete"}) =>
              /\ held' = held
              /\ ViewRows' = ViewRows
       /\ last'.op = "JoinedTable" =>
              \A t \in DOMAIN tables : TableState(t)' = TableState(t)]_vars

\* The view of users and their orders has three rows, the first with
\* orders.user_id 1, after the update that set user_id of that order to null.
C30_Witness ==
    /\ held.tag = "JoinedTable"
    /\ View.left = "users" /\ View.right = "orders"
    /\ View.left_column = "id" /\ View.right_column = "user_id"
    /\ last.op = "update" /\ last.err = NoErr
    /\ Len(View.rows) = 3
    /\ heap[View.rows[1]].data["orders.user_id"] = IntV(1)
    /\ RightData(1)["user_id"] = None
    /\ deleted["users"] = {2}

\* C31: no field name of a view's row stands for a field of both sources: the
\* row of a matching pair has as many fields as the left row and the right
\* row together, and every value of the left row and of the right row is read
\* from it under its prefixed name, for every two Tables joined, a Table
\* joined with itself among them.
C31_NoCollision ==
    C29_Built =>
        \A m \in C29_Matching :
            LET out == heap[View.rows[C29_Place(m)]].data IN
            /\ Cardinality(DOMAIN out)
                  = Cardinality(DOMAIN LeftData(m[1])) + Cardinality(DOMAIN RightData(m[2]))
            /\ \A k \in DOMAIN LeftData(m[1]) :
                  /\ (tables[View.left].name \o "." \o k) \in DOMAIN out
                  /\ out[tables[View.left].name \o "." \o k] = LeftData(m[1])[k]
            /\ \A k \in DOMAIN RightData(m[2]) :
                  /\ (tables[View.right].name \o "." \o k) \in DOMAIN out
                  /\ out[tables[View.right].name \o "." \o k] = RightData(m[2])[k]

\* What the code does: the names are apart when the two Tables have different names.
C31_NoCollisionOfTwoNames ==
    (C29_Built /\ tables[View.left].name # tables[View.right].name) =>
        \A m \in C29_Matching :
            Cardinality(DOMAIN heap[View.rows[C29_Place(m)]].data)
                = Cardinality(DOMAIN LeftData(m[1])) + Cardinality(DOMAIN RightData(m[2]))

(***************************************************************************)
(* A Table with two primary-key columns, one of them nullable.             *)
(***************************************************************************)
KeysColumns ==
    << Column("id", IntegerType, FALSE, TRUE, NoForeignKey),
       Column("code", IntegerType, TRUE, TRUE, NoForeignKey) >>
\* Accepted: the values a stored row may already have; null for the nullable
\* primary key; the nullable primary key left out.  Rejected: no id.
KeysInserts ==
    { ("id" :> IntV(1)) @@ ("code" :> IntV(7)),
      ("id" :> IntV(1)) @@ ("code" :> None),
      ("id" :> IntV(2)),
      ("code" :> IntV(7)) }
\* Accepted: the id or the code another row may have.  Rejected: null for the id.
KeysUpdates == { ("id" :> IntV(1)), ("code" :> IntV(7)), ("id" :> None) }

KeysInit ==
    /\ tables = ("keys" :> Table("keys", KeysColumns))
    /\ heap = <<>>
    /\ last = Call("", "", 0, EmptyDict, Returns(heap, <<>>, None))
    /\ assigned = ("keys" :> <<>>)
    /\ deleted = ("keys" :> {})
    /\ held = None
    /\ instance = None
    /\ query = None

KeysNext ==
    \/ \E row_data \in KeysInserts : Insert("keys", row_data)
    \/ \E row_id \in 1..2 : \E new_data \in KeysUpdates : Update("keys", row_id, new_data)
    \/ Delete("keys", 1)

SpecKeys == KeysInit /\ [][KeysNext]_vars

\* The row satisfies each column by itself: a value of the column's type, or
\* null (or no key) where the column is nullable.
C32_RowAlone(data) ==
    \A i \in DOMAIN KeysColumns :
        IF KeysColumns[i].name \in DOMAIN data /\ data[KeysColumns[i].name] # None
        THEN data[KeysColumns[i].name].tag = "int"
        ELSE KeysColumns[i].nullable
\* The values two rows have at a column, a missing key read as null.
C32_At(a, column) == IF column \in DOMAIN heap[a].data THEN heap[a].data[column] ELSE None

\* C32: whether insert or update accepts a row depends on that row alone: a
\* row that satisfies each column by itself is stored whatever values the
\* stored rows have in the primary-key columns, and a nullable primary-key
\* column accepts null.
C32_PrimaryKeyNotEnforced ==
    [][/\ last'.op = "insert" => (last'.err = NoErr <=> C32_RowAlone(last'.data))
       /\ (last'.op = "update" /\ last'.row_id \in StoredIds("keys")) =>
             (last'.err = NoErr <=>
                 C32_RowAlone(Merged(heap[AddrOf("keys", last'.row_id)].data, last'.data)))]_vars

\* Two stored rows with the same id and the same code, made equal by an
\* update, and a third with null for the nullable primary key.
C32_Witness ==
    /\ last.op = "update" /\ last.err = NoErr
    /\ Len(tables["keys"].rows) = 3
    /\ \E a, b, c \in Range(tables["keys"].rows) :
          /\ a # b
          /\ C32_At(a, "id") = IntV(1) /\ C32_At(b, "id") = IntV(1)
          /\ C32_At(a, "code") = IntV(7) /\ C32_At(b, "code") = IntV(7)
          /\ "code" \in DOMAIN heap[c].data /\ heap[c].data["code"] = None

\* The clause is read on the row without error and lets it pass.
C33_Passes(data, cond) ==
    /\ cond[1] \in DOMAIN data
    /\ cond[2] \in Operators => C20_Holds(data, cond)
\* _matches reaches, on row a, a clause whose column a lacks: the clauses
\* before it let a pass.
C33_ClauseReads(a) ==
    \E k \in DOMAIN query.v.filter_conditions :
        /\ query.v.filter_conditions[k][1] \notin DOMAIN heap[a].data
        /\ \A j \in 1..(k - 1) : C33_Passes(heap[a].data, query.v.filter_conditions[j])
\* The rows every clause lets pass: those the sort and the aggregates read.
C33_Survivors ==
    {a \in Range(Source) :
        \A cond \in Range(query.v.filter_conditions) : C33_Passes(heap[a].data, cond)}
\* The call reads, on some row, a column the row was stored without: in a
\* where clause, as the sort column, or as the column of sum or avg.
C33_Reads ==
    \/ \E a \in Range(Source) : C33_ClauseReads(a)
    \/ /\ query.v.sort_column # None
       /\ \E a \in C33_Survivors : query.v.sort_column.v \notin DOMAIN heap[a].data
    \/ /\ last.op \in {"sum", "avg"}
       /\ \E a \in C33_Survivors : last.data["column"].v \notin DOMAIN heap[a].data
C33_NoNulls == \A a \in Range(Source) : \A k \in DOMAIN heap[a].data : heap[a].data[k] # None

\* C33: a row inserted without the key of a nullable column is stored without
\* it, and a call of execute, count, sum or avg that reads the column on that
\* row, in a where clause, for the sort, or as the column of sum or avg, raises
\* (KeyError) where a null would have been read; nothing else raises on a
\* source without nulls, and a select that names the column leaves it out of
\* the result row.
C33_MissingKeyRaises ==
    last.op \in {"execute", "count", "sum", "avg"} =>
        /\ C33_Reads => last.err # NoErr
        /\ C33_NoNulls =>
              /\ last.err # NoErr => C33_Reads
              /\ C33_Reads => last.err.type = "KeyError"
        /\ (last.op = "execute" /\ last.err = NoErr /\ Selected) =>
              \A column \in Range(query.v.selected_columns.v) :
                  Cardinality({p \in DOMAIN last.ret.v : column \notin DOMAIN heap[last.ret.v[p]].data})
                     = Cardinality({a \in C33_Survivors : column \notin DOMAIN heap[a].data})

\* The row with id 2 was stored without "value": where value = 20 raises KeyError.
C33_Witness ==
    /\ last.op = "execute"
    /\ last.err.type = "KeyError"
    /\ query.v.filter_conditions = << <<"value", "=", IntV(20)>> >>
    /\ query.v.sort_column = None
    /\ Len(Source) = 2
    /\ DOMAIN heap[Source[2]].data = {"id"}
    /\ heap[Source[2]].id = IntV(2)
\* The clause id < 2 keeps the row away from the sort, which raises nothing;
\* select "value" on all rows gives a row without "value".
C33_SortNotReached ==
    /\ last.op = "execute" /\ last.err = NoErr
    /\ query.v.filter_conditions = << <<"id", "<", IntV(2)>> >>
    /\ query.v.sort_column # None
    /\ Len(Source) = 2 /\ DOMAIN heap[Source[2]].data = {"id"}
C33_SelectOmits ==
    /\ last.op = "execute" /\ last.err = NoErr /\ Selected
    /\ query.v.filter_conditions = <<>>
    /\ Len(last.ret.v) = 2
    /\ DOMAIN heap[last.ret.v[2]].data = {}

OrderingOperators == {">", "<", ">=", "<="}
\* _matches reaches, on row a, an ordering clause at a column where a holds
\* null: the clauses before it let a pass.
C34_NullCompared(a) ==
    \E k \in DOMAIN query.v.filter_conditions :
        /\ query.v.filter_conditions[k][2] \in OrderingOperators
        /\ query.v.filter_conditions[k][1] \in DOMAIN heap[a].data
        /\ heap[a].data[query.v.filter_conditions[k][1]] = None
        /\ \A j \in 1..(k - 1) : C33_Passes(heap[a].data, query.v.filter_conditions[j])
C34_NoGaps == \A a \in Range(Source) : {"id", "value"} \subseteq DOMAIN heap[a].data

\* C34: a call of execute, count, sum or avg that evaluates a clause of >, <,
\* >= or <= on a row whose value at the clause's column is null raises
\* (TypeError) and does not leave the row out; clauses of = and != are
\* evaluated on nulls without error: a null is not equal to a value, so it
\* fails = and passes !=.
C34_NullOrderingRaises ==
    last.op \in {"execute", "count", "sum", "avg"} =>
        /\ (\E a \in Range(Source) : C34_NullCompared(a)) => last.err # NoErr
        /\ C34_NoGaps =>
              /\ last.err # NoErr =>
                    /\ \E a \in Range(Source) : C34_NullCompared(a)
                    /\ last.err.type = "TypeError"
              /\ (\A cond \in Range(query.v.filter_conditions) : cond[2] \in {"=", "!="}) =>
                    /\ last.err = NoErr
                    /\ last.op = "count" =>
                          last.ret = IntV(Cardinality({a \in Range(Source) : C20_Passes(a)}))

\* value > 10 on the rows 20, null, 10, null, 20: count raises TypeError.
C34_Witness ==
    /\ last.op = "count"
    /\ last.err.type = "TypeError"
    /\ query.v.filter_conditions = << <<"value", ">", IntV(10)>> >>
    /\ Len(Source) = 5
    /\ heap[Source[2]].data["value"] = None
\* value != 20 on the same rows: the two nulls and the 10 pass.
C34_NotEqualOnNull ==
    /\ last.op = "count" /\ last.err = NoErr
    /\ last.ret = IntV(3)
    /\ query.v.filter_conditions = << <<"value", "!=", IntV(20)>> >>
    /\ Len(Source) = 5

\* The query without its clauses of operators that are not known, and what
\* the call in last returns on it.
C35_Known(cond) == cond[2] \in Operators
C35_Without == [query.v EXCEPT !.filter_conditions = SelectSeq(@, C35_Known)]
C35_Rerun ==
    CASE last.op = "execute" -> execute(heap, tables[query.v.table], C35_Without)
      [] last.op = "count" -> count(heap, tables[query.v.table], C35_Without)
      [] last.op = "sum" -> sum(heap, tables[query.v.table], C35_Without, last.data["column"].v)
      [] last.op = "avg" -> avg(heap, tables[query.v.table], C35_Without, last.data["column"].v)
\* Every row of the source has the column of each such clause (reading a
\* column a row lacks raises KeyError whatever the operator).
C35_ColumnsStored ==
    \A cond \in Range(query.v.filter_conditions) :
        ~C35_Known(cond) => \A a \in Range(Source) : cond[1] \in DOMAIN heap[a].data
\* The call in last gave what r holds.
C35_Same(r) ==
    /\ last.err = r.err
    /\ last.err = NoErr =>
          IF last.op = "execute"
          THEN /\ Len(last.ret.v) = Len(r.ret.v)
               /\ \A p \in DOMAIN last.ret.v : heap[last.ret.v[p]] = r.heap[r.ret.v[p]]
               /\ ~Selected => last.ret = r.ret
          ELSE last.ret = r.ret

\* C35: where takes a clause whose operator is none of = > < >= <= != without
\* error and adds it to the query; every row passes such a clause, so
\* execute, count, sum and avg give what they give on the same query without
\* the clause.
C35_UnknownOperatorPasses ==
    /\ last.op = "where" =>
          /\ last.err = NoErr
          /\ query.v.filter_conditions # <<>>
          /\ query.v.filter_conditions[Len(query.v.filter_conditions)]
                = <<last.data["column"].v, last.data["operator"].v, last.data["value"]>>
    /\ (last.op \in {"execute", "count", "sum", "avg"} /\ C35_ColumnsStored) =>
          C35_Same(C35_Rerun)

\* value ~ 20 and value > 10 on the values 10, 20, 30: the rows with 20 and 30.
C35_Witness ==
    /\ last.op = "execute" /\ last.err = NoErr
    /\ query.v.filter_conditions = << <<"value", "~", IntV(20)>>, <<"value", ">", IntV(10)>> >>
    /\ ~Selected
    /\ Len(Source) = 3
    /\ Len(last.ret.v) = 2
    /\ heap[last.ret.v[1]].data["value"] = IntV(20)
    /\ heap[last.ret.v[2]].data["value"] = IntV(30)
\* value ~ 20 on a source with a row stored without "value": KeyError.
C35_MissingKeyStillRaises ==
    /\ last.op = "count" /\ last.err.type = "KeyError"
    /\ query.v.filter_conditions = << <<"value", "~", IntV(20)>> >>

\* C35 as stated, for every source: the calls give what they give on the
\* query without the clauses of unknown operators also when a row of the
\* source was stored without a clause's column.
C35_UnknownOperatorNeverRaises ==
    last.op \in {"execute", "count", "sum", "avg"} => C35_Same(C35_Rerun)

\* The pairs of a left and a right row that both hold null at their join column.
C36_NullPairs ==
    {m \in (DOMAIN LeftRows) \X (DOMAIN RightRows) :
        /\ View.left_column \in DOMAIN LeftData(m[1])
        /\ View.right_column \in DOMAIN RightData(m[2])
        /\ LeftData(m[1])[View.left_column] = None
        /\ RightData(m[2])[View.right_column] = None}
\* The rows of the view whose right join value is null.
C36_NullRows ==
    {p \in DOMAIN View.rows :
        heap[View.rows[p]].data[tables[View.right].name \o "." \o View.right_column] = None}

\* C36: a left row and a right row that both hold null at their join columns
\* are a matching pair: a view just built has one row for each such pair (and
\* its rows with a null join value are those rows).
C36_NullJoinsNull ==
    C29_Built => Cardinality(C36_NullRows) = Cardinality(C36_NullPairs)

\* users joined with orders on boss = user_id after the first order's user_id
\* was set to null: the first row of the view is user 1 (no boss) with that order.
C36_Witness ==
    /\ C29_Built
    /\ View.left = "users" /\ View.right = "orders"
    /\ View.left_column = "boss" /\ View.right_column = "user_id"
    /\ View.rows # <<>>
    /\ heap[View.rows[1]].data["users.boss"] = None
    /\ heap[View.rows[1]].data["orders.user_id"] = None
    /\ heap[View.rows[1]].data["users.id"] = IntV(1)
    /\ heap[View.rows[1]].data["orders.id"] = IntV(100)

\* The id a caller's row got, once the caller has read next_id.
HasRead(c) == held.v[c].pc \in {"load", "store", "append", "done"} /\ held.v[c].row # 0
FrameId(c) == heap[held.v[c].row].id.v
Returned(c) == held.v[c].pc = "done" /\ held.v[c].row # 0
Raced == held.v[1].raced \/ held.v[2].raced

\* C37: when a caller of insert reads next_id while the other is between its
\* read of next_id and its increment, both rows get the same id: the ids of
\* the two rows are equal exactly when the calls were interleaved so, and
\* then, both calls having returned, the Table holds two rows with one id and
\* next_id has either gone past an id no row has (advanced twice) or advanced
\* once only; calls that are not interleaved so get the ids next_id and
\* next_id + 1, as atomic calls do.
C37_InterleavedInsertsShareId ==
    /\ (InWindow(1) /\ InWindow(2)) => (Raced /\ FrameId(1) = FrameId(2))
    /\ (HasRead(1) /\ HasRead(2)) => (FrameId(1) = FrameId(2) <=> Raced)
    /\ (Returned(1) /\ Returned(2)) =>
          LET stored == {heap[a].id.v : a \in Range(tables["numbers"].rows)}
              first == Len(tables["numbers"].rows) - 1
          IN IF Raced
             THEN /\ Cardinality(stored) = Len(tables["numbers"].rows) - 1
                  /\ ~StrictlyIncreasing(assigned["numbers"])
                  /\ FrameId(1) = first
                  /\ \/ tables["numbers"].next_id = first + 2 /\ (first + 1) \notin stored
                     \/ tables["numbers"].next_id = first + 1
             ELSE /\ Cardinality(stored) = Len(tables["numbers"].rows)
                  /\ {FrameId(1), FrameId(2)} = {first, first + 1}
                  /\ tables["numbers"].next_id = first + 2

\* Both calls have returned on the Table that was empty: two rows with id 1,
\* next_id is 3 and no row has id 2.
C37_Witness ==
    /\ Returned(1) /\ Returned(2)
    /\ Len(tables["numbers"].rows) = 2
    /\ heap[tables["numbers"].rows[1]].id = IntV(1)
    /\ heap[tables["numbers"].rows[2]].id = IntV(1)
    /\ tables["numbers"].next_id = 3
\* The same with the two increments interleaved too: next_id is 2.
C37_LostIncrement ==
    /\ Returned(1) /\ Returned(2)
    /\ Len(tables["numbers"].rows) = 2
    /\ FrameId(1) = 1 /\ FrameId(2) = 1
    /\ tables["numbers"].next_id = 2

(***************************************************************************)
(* Column lists with a repeated name, and foreign keys to the Table itself. *)
(***************************************************************************)
\* The names of a column list and the place of the last Column of a name.
ColumnNames(columns) == {columns[i].name : i \in DOMAIN columns}
LastOfName(columns, name) ==
    columns[CHOOSE i \in DOMAIN columns :
                /\ columns[i].name = name
                /\ \A j \in DOMAIN columns : columns[j].name = name => j <= i]
RepeatsName(columns) ==
    \E i, j \in DOMAIN columns : i < j /\ columns[i].name = columns[j].name
\* The foreign-key errors of create_table.
ForeignKeyError(e) ==
    \/ e.type = "ValueError" /\ e.msg = "Referenced table does not exist"
    \/ UnknownColumnError(e)
    \/ NotPrimaryKeyError(e)

\* C38: create_table with a column list in which two Columns share a name
\* succeeds when the name is free and every foreign key of the list, those of
\* the shadowed Columns included, passes its checks; the Table registered
\* then has one Column per name, the last of that name in the list.  When the
\* call fails, the error is the one of the taken name or of a foreign key,
\* never one about the repeated name.
C38_DuplicateColumnNames ==
    [][(last'.op = "create_table" /\ RepeatsName(ArgColumns)) =>
          IF ArgName \in DOMAIN Registry
          THEN DuplicateTableError(last'.err) /\ DbUnchanged
          ELSE IF \E i \in DOMAIN ArgColumns : Defect(ArgColumns[i]) # "none"
          THEN ForeignKeyError(last'.err) /\ DbUnchanged
          ELSE /\ last'.err = NoErr
               /\ ArgName \in DOMAIN Registry'
               /\ LET kept == RegisteredAfter(ArgName).columns IN
                    /\ Len(kept) = Cardinality(ColumnNames(ArgColumns))
                    /\ {c.name : c \in Range(kept)} = ColumnNames(ArgColumns)
                    /\ \A c \in Range(kept) : c = LastOfName(ArgColumns, c.name)]_vars

\* The Table made from a list with two Columns named id keeps the last one,
\* which is not a primary key.
C38_Witness ==
    /\ last.op = "create_table"
    /\ last.err = NoErr
    /\ last.data["arg:columns"].v = DuplicateColumns
    /\ "users" \in DOMAIN Registry
    /\ Registered("users").columns = << DuplicateColumns[2] >>

\* The foreign key of a shadowed Column is still checked.
C38_ShadowedForeignKeyChecked ==
    /\ last.op = "create_table"
    /\ last.data["arg:columns"].v = ShadowedGhostColumns
    /\ last.err.type = "ValueError"
    /\ last.err.msg = "Referenced table does not exist"
    /\ "orders" \notin DOMAIN Registry

\* The places of the Columns of a list whose foreign key names the table t.
RefersTo(columns, t) ==
    {i \in DOMAIN columns :
        columns[i].foreign_key # NoForeignKey /\ columns[i].foreign_key[1] = t}
\* The places of the Columns whose foreign key fails a check before the call.
Defective(columns) == {i \in DOMAIN columns : Defect(columns[i]) # "none"}

\* A foreign key of a registered Table names a Table registered before it
\* (the Tables are numbered in the order of their registration), so none
\* names its own Table and no chain of foreign keys comes back to its start.
ForeignKeysPointBack ==
    instance # None =>
        \A name \in DOMAIN Registry :
            \A col \in Range(Registered(name).columns) :
                col.foreign_key # NoForeignKey =>
                    /\ col.foreign_key[1] \in DOMAIN Registry
                    /\ Registry[col.foreign_key[1]] < Registry[name]

\* create_table under a free name with a Column whose foreign key names that
\* same name fails and registers nothing: that Column fails the check of the
\* referenced table, and the error is the unknown-table one whenever no
\* Column before it fails another check.
SelfReferenceRejected ==
    [][(/\ last'.op = "create_table"
        /\ ArgName \notin DOMAIN Registry
        /\ RefersTo(ArgColumns, ArgName) # {}) =>
          /\ last'.err.type = "ValueError"
          /\ DbUnchanged
          /\ \A i \in RefersTo(ArgColumns, ArgName) : Defect(ArgColumns[i]) = "table"
          /\ SetMin(Defective(ArgColumns)) \in RefersTo(ArgColumns, ArgName) =>
                /\ UnknownTableError(last'.err)
                /\ last'.err.msg = "Referenced table does not exist"]_vars

\* C39: a foreign key only ever names a Table registered strictly earlier:
\* create_table under a name not yet registered, with a Column whose foreign
\* key names that name, fails with the unknown-table error, so that no
\* registered Table has a foreign key to itself and the foreign keys between
\* the Tables make no cycle.
C39_NoSelfReference == []ForeignKeysPointBack /\ SelfReferenceRejected

\* The self-reference of users was just refused while users was not registered.
C39_Witness ==
    /\ last.op = "create_table"
    /\ last.data["arg:name"].v = "users"
    /\ last.data["arg:columns"].v = SelfRefColumns
    /\ last.err.type = "ValueError"
    /\ last.err.msg = "Referenced table does not exist"
    /\ "users" \notin DOMAIN Registry

\* A foreign key points back: orders, registered after users, refers to it.
C39_PointsBack ==
    /\ instance # None
    /\ {"users", "orders"} \subseteq DOMAIN Registry
    /\ \E col \in Range(Registered("orders").columns) :
          col.foreign_key = <<"users", "id">>
    /\ Registry["users"] < Registry["orders"]

\* The second half of a cycle is refused: users exists, orders refers to it,
\* and users cannot be made again with a foreign key to orders.
C39_CycleRefused ==
    /\ last.op = "create_table"
    /\ last.data["arg:columns"].v = CycleColumns
    /\ DuplicateTableError(last.err)
    /\ C39_PointsBack

\* A Column before the self-reference fails another check and decides the error.
C39_EarlierDefectDecides ==
    /\ last.op = "create_table"
    /\ last.data["arg:columns"].v = LateSelfRefColumns
    /\ NotPrimaryKeyError(last.err)
    /\ "orders" \notin DOMAIN Registry

(***************************************************************************)
(* select with no column.                                                  *)
(***************************************************************************)
\* A call of execute on a builder whose select was given no column.
EmptySelect ==
    /\ last.op = "execute"
    /\ query # None
    /\ query.v.selected_columns = ListV(<<>>)
\* What execute gives on the same builder with no select set.
C40_Unselected ==
    execute(heap, tables[query.v.table], [query.v EXCEPT !.selected_columns = None])
C40_Same(r) ==
    /\ last.err = r.err
    /\ last.err = NoErr =>
          /\ last.ret = r.ret
          /\ Range(last.ret.v) \subseteq Range(Source)
          /\ \A a \in Range(last.ret.v) : DOMAIN heap[a].data # {}
          /\ KnownOperators => Range(last.ret.v) = Passing

\* C40: execute on a builder whose select was given an empty column list
\* does what it does with no select: it returns (or raises) the same, and the
\* rows it returns are the filtered rows of the source themselves, stored in
\* the Table and holding their fields, not new rows without fields.
C40_EmptySelectIsNoSelect == EmptySelect => C40_Same(C40_Unselected)

\* select() with where(value > 10) on the values 10, 20, 30: the two stored
\* rows with 20 and 30 are returned.
C40_Witness ==
    /\ EmptySelect
    /\ last.err = NoErr
    /\ query.v.filter_conditions = << <<"value", ">", IntV(10)>> >>
    /\ Len(Source) = 3
    /\ Len(last.ret.v) = 2
    /\ Range(last.ret.v) \subseteq Range(Source)
    /\ \A a \in Range(last.ret.v) : DOMAIN heap[a].data = {"id", "value"}

====
